---- MODULE Spec2Model ----
(***************************************************************************)
(* Upload task lifecycle of MTYoutubeAutoPost: the worker pool             *)
(* (WorkerManager, UploadWorker), the Orchestrator that drives it and the  *)
(* persisted session/video rows it writes.                                 *)
(*                                                                         *)
(* Threads.  WorkerManager and Orchestrator are QObjects of the GUI        *)
(* thread.  UploadWorker.run executes in its own thread; the signals it    *)
(* emits reach WorkerManager's slots as queued events (evq) that the GUI   *)
(* thread handles one at a time.  WorkerManager's signals reach the        *)
(* Orchestrator's slots by direct call, inside the manager's handler.      *)
(***************************************************************************)
EXTENDS Integers, Sequences, FiniteSets, TLC

\* ------------------------------------------------------------------ bounds
MaxThreads == 2     \* worker threads that exist at one time (running or not yet exited)
MaxEntries == 2     \* queue entries ever submitted to the pool
MaxDelay == 1       \* longest anti-throttle delay drawn, in seconds
MaxCountArg == 2    \* largest worker count passed to set_worker_count / start_workers
MaxPauses == 1      \* pause_all calls in one behaviour
MaxSessions == 1    \* sessions created by process_folders, per start of the program
NumKeys == 2        \* distinct (product code, episode) pairs
MaxListLen == 2     \* longest task list process_folders builds
MaxCreds == 3       \* credential sets (ytkey_*.json) loaded
MaxTaskIds == 4     \* task ids (uuid4) drawn in one behaviour
MaxClock == 43      \* last hour the wall clock reaches
TickHours == 12     \* hours between two readings of the wall clock
MaxCrashes == 1     \* times the process dies and the program is started again
MaxVideos == 3      \* videos the channel ever holds
MaxPending == 2     \* upload tasks of one key waiting at one time
NumFiles == 2       \* distinct video files (filename, file_path)
MaxRestarts == 1    \* times Start is clicked again in one run of the program
MaxRetryCount == 10 \* largest retry_count passed to get_retry_delay
MaxWords == 2       \* words of an error message
MaxRetries == 3     \* largest max_retries passed to retry_with_backoff
MaxRows == 3        \* rows the videos table holds

\* ------------------------------------------------------- program constants
MinWorkers == 1           \* worker_manager.py:59
MaxWorkers == 5           \* worker_manager.py:59
SlicesPerSecond == 2      \* upload_worker.py:117
quota_reset_hour == 7     \* api_key_manager.py:43
HoursPerDay == 24         \* api_key_manager.py:138, timedelta(days=1)

Threads == 1..MaxThreads
SessionIds == 1..(MaxSessions * (MaxCrashes + 1))
Keys == 1..NumKeys
NoEntry == [e |-> 0, t |-> 0]
Max2(a, b) == IF a > b THEN a ELSE b
Min2(a, b) == IF a < b THEN a ELSE b

VARIABLES
    \* WorkerManager
    task_queue,        \* _task_queue: FIFO of entries [e: entry number, t: task id]
    total_tasks, completed_count, failed_count,
    mgr_running,       \* WorkerManager._is_running
    workers,           \* _workers: sequence of thread ids, in worker-id order
    worker_count,      \* _worker_count
    \* UploadWorker, one per thread
    wpc,               \* position of the thread in run / _process_task; "free" = no thread
    wtask,             \* UploadWorker._task, the assignment slot
    cur,               \* local variable task of run / _process_task
    left,              \* iterations of the delay loop still to run
    w_running, w_paused,
    \* queued signals worker -> manager
    evq,
    \* history
    next_entry,        \* number of the next entry submitted
    all_emits,         \* times all_tasks_completed.emit() ran
    emit_ok,           \* the last emission happened with queue empty, counters equal, nothing live
    terminal,          \* entry numbers with a task_completed / task_failed event emitted
    w_failed,          \* per thread: the worker has emitted task_failed since it was started
    stop_in_delay,     \* per thread: stop() arrived while it was in the delay of cur
    pause_hold,        \* per thread: pause() arrived while idle or in the delay, no resume since
    pauses,            \* pause_all calls so far
    stale              \* entry numbers that were in the queue when stop_all ended a run

poolVars == <<task_queue, total_tasks, completed_count, failed_count, mgr_running,
              workers, worker_count, wpc, wtask, cur, left, w_running, w_paused, evq,
              next_entry, all_emits, emit_ok, terminal, w_failed,
              stop_in_delay, pause_hold, pauses, stale>>

VARIABLES
    \* Orchestrator
    o_tasks,           \* _tasks: sequence of [id, key, status, action]
    o_running, o_paused,
    session_id,        \* _session_id, 0 = None
    next_task,         \* next fresh task id (uuid4)
    \* persistent state store
    sessions,          \* UploadSession rows: [status, uploaded, updated, failed]; "none" = no row
    rows,              \* Video row status per (product code, episode); "none" = no row
    \* history
    completed_emits,   \* times Orchestrator.completed was emitted
    start_pending,     \* a start() took effect and neither completed nor stop() followed yet
    completion_ok,     \* every completed emission found the session completed, all tasks terminal
    o_last             \* the signal emitted last of stopped and completed; "none" before both

orchVars == <<o_tasks, o_running, o_paused, session_id, next_task, sessions, rows,
              completed_emits, start_pending, completion_ok, o_last>>

VARIABLES
    \* APIKeyManager
    n_keys,            \* len(self._keys)
    current_index,
    exhausted_keys,    \* index -> hour it was marked exhausted, NotExhausted if absent
    now,               \* the wall clock, in hours
    mark_result,       \* what the last mark_quota_exceeded() did: "none" before the first
    status_report,     \* the last get_status(): it raised, or the indices it gave as exhausted
    \* YouTubeAPIService
    api_lock,          \* _api_lock (threading.Lock): 0 = free, else the holding thread
    a_depth,           \* per thread: with-blocks on _api_lock it is inside
    credentials_valid, \* _credentials is not None and _credentials.valid
    youtube_built,     \* _youtube is not None
    \* one caller (worker thread) inside upload_video / update_video
    apc,               \* position in the call; "out" = not in a call
    a_op,              \* "upload" or "update"
    a_ctx,             \* authenticate() was called from "ensure" or from "switch"
    attempts,          \* remote attempts of the current (or last) caller invocation
    quota_hits         \* quota-exceeded answers of the current (or last) invocation

apiVars == <<n_keys, current_index, exhausted_keys, now, mark_result, status_report,
             api_lock, a_depth,
             credentials_valid, youtube_built, apc, a_op, a_ctx, attempts, quota_hits>>

VARIABLES
    key_lock,          \* APIKeyManager._lock: 0 = free, else the holding thread
    kpc                \* per thread: the APIKeyManager method it is inside, "out" = none

lockVars == <<key_lock, kpc>>

VARIABLES
    crashes,           \* times the process has died so far
    resumed            \* what get_resumable_session() gave the last resume_from_crash, 0 = None

runVars == <<crashes, resumed>>

VARIABLES
    \* DuplicateChecker
    channel_videos,    \* youtube_channel_videos: the rows [key, vid], in rowid order
    channel,           \* the videos on the channel, as the remote search sees them: [key, vid]
    to_upload,         \* per key: tasks given action upload and not yet uploaded
    registered,        \* per key: the video ids register_uploaded_video was called with
    last_check,        \* the last check_duplicate: [key, exists, vid, searched]
    next_vid           \* the next video id the channel gives out

cacheVars == <<channel_videos, channel, to_upload, registered, last_check, next_vid>>

VARIABLES
    \* StateManager
    videos,            \* the videos table: rows [key, file, status, youtube_video_id], by rowid
    saved              \* the task the last save_task_state was called with

tableVars == <<videos, saved>>

VARIABLES
    \* RetryManager
    delay_in,          \* the last get_retry_delay call: [n, b, m], m the jitter drawn in fifths of a second
    delay_out,         \* what it returned
    message,           \* str(error) of the last is_retryable_error call, as a sequence of words
    retryable,         \* what it returned: "true" / "false", "none" before the call
    \* one retry_with_backoff(func, rb_max, rb_base) call
    rb_pc,             \* "idle" = not called, "test" = at the while test, "call", "sleep", "done"
    rb_max, rb_base,   \* its arguments max_retries and base_delay
    rb_count,          \* its local retry_count
    outcomes,          \* per call of func so far: TRUE = it returned, FALSE = it raised
    slept,             \* the time.sleep calls so far: [i: rb_count, d: seconds]
    rb_result          \* "none", "success" = (True, result, None), "failure" = (False, None, e)

retryVars == <<delay_in, delay_out, message, retryable,
               rb_pc, rb_max, rb_base, rb_count, outcomes, slept, rb_result>>

VARIABLES
    row_session        \* per key: the session whose task saved the Video row last, 0 = none

ownerVars == <<row_session>>

VARIABLES
    dup_index,         \* Duplicate Index: keys with a YouTubeChannelVideo row in the cache
    task_info          \* per task id: the (product code, episode) key and action of the VideoTask

indexVars == <<dup_index, task_info>>

vars == <<poolVars, orchVars, apiVars, indexVars, lockVars, runVars, cacheVars, tableVars, retryVars, ownerVars>>

\* ----------------------------------------------------------------- helpers
RECURSIVE SetToSeq(_)
SetToSeq(S) ==
    IF S = {} THEN <<>>
    ELSE LET m == CHOOSE x \in S : \A y \in S : x <= y
         IN <<m>> \o SetToSeq(S \ {m})

Range(sq) == {sq[i] : i \in 1..Len(sq)}
FreeThreads == {th \in Threads : wpc[th] = "free"}
FirstFree(n) == SubSeq(SetToSeq(FreeThreads), 1, n)

\* worker_count.setter: max(1, min(5, value))
ClampWorkerCount(value) == Max2(MinWorkers, Min2(MaxWorkers, value))

\* remaining_count
remaining_count(total, done, bad) == total - done - bad

\* UploadWorker.is_busy: the slot holds a task the thread has not fetched
is_busy(slots, th) == slots[th] # NoEntry

\* queue.get_nowait(): what is left of the queue after the head is taken
QueueAfterGetKeep(q) == q
QueueAfterGet(q) == Tail(q)

\* queue.get_nowait(): the task it returns (queue.Queue is first in, first out)
QueueGetNewest(q) == q[Len(q)]
QueueGet(q) == Head(q)

\* _distribute_tasks: the loop over self._workers from index i on
RECURSIVE DistributeFrom(_, _, _, _)
DistributeFrom(i, ws, q, slots) ==
    IF i > Len(ws) THEN [q |-> q, s |-> slots]
    ELSE IF is_busy(slots, ws[i]) THEN DistributeFrom(i + 1, ws, q, slots)
    ELSE IF q = <<>> THEN [q |-> q, s |-> slots]
    ELSE DistributeFrom(i + 1, ws, QueueAfterGet(q), [slots EXCEPT ![ws[i]] = QueueGet(q)])

distribute_tasks(running, ws, q, slots) ==
    IF ~running THEN [q |-> q, s |-> slots] ELSE DistributeFrom(1, ws, q, slots)

\* ---------------------------------------------- Orchestrator, pure parts
\* for task in self._tasks: if task.task_id == task_id: ... break
TaskIndex(tasks, id) ==
    IF \E i \in 1..Len(tasks) : tasks[i].id = id
    THEN CHOOSE i \in 1..Len(tasks) :
            tasks[i].id = id /\ \A j \in 1..(i - 1) : tasks[j].id # id
    ELSE 0

TasksWithStatus(tasks, id, st) ==
    LET i == TaskIndex(tasks, id)
    IN IF i = 0 THEN tasks ELSE [tasks EXCEPT ![i].status = st]

\* StateManager.save_task_state for the task the handler found (none: no write)
RowsAfterSave(rws, tasks, id) ==
    LET i == TaskIndex(tasks, id)
    IN IF i = 0 THEN rws ELSE [rws EXCEPT ![tasks[i].key] = tasks[i].status]

\* the session whose task the handler saved (none found: no write)
OwnerAfterSave(own, tasks, id, sid) ==
    LET i == TaskIndex(tasks, id)
    IN IF i = 0 THEN own ELSE [own EXCEPT ![tasks[i].key] = sid]

CountTasks(tasks, st, act) ==
    Cardinality({i \in 1..Len(tasks) : tasks[i].status = st /\ tasks[i].action \in act})

\* _update_progress -> StateManager.update_session_stats
SessionsAfterStats(ss, sid, tasks) ==
    IF sid = 0 \/ ss[sid].status = "none" THEN ss
    ELSE [ss EXCEPT ![sid].uploaded = CountTasks(tasks, "completed", {"upload"}),
                    ![sid].updated = CountTasks(tasks, "completed", {"update"}),
                    ![sid].failed = CountTasks(tasks, "failed", {"upload", "update"})]

\* StateManager.set_session_status
SessionsWithStatus(ss, sid, st) ==
    IF sid = 0 \/ ss[sid].status = "none" THEN ss ELSE [ss EXCEPT ![sid].status = st]

\* ------------------------------------------------------------ UploadWorker
mgrVars == <<task_queue, total_tasks, completed_count, failed_count, mgr_running,
             workers, worker_count>>
flagVars == <<w_running, w_paused>>
histVars == <<next_entry, all_emits, emit_ok, pauses, stale>>

\* the thread is inside the for loop of the anti-throttle delay
InDelay(th) == wpc[th] \in {"delay_chk", "delay_pause", "delay_sleep"} /\ left[th] > 0
\* the thread holds no fetched task
Idle(th) == wpc[th] \in {"loop", "fetch"}

\* run() returns: the thread ends and its UploadWorker object is discarded
ThreadExit(th) ==
    /\ wpc' = [wpc EXCEPT ![th] = "free"]
    /\ wtask' = [wtask EXCEPT ![th] = NoEntry]
    /\ w_running' = [w_running EXCEPT ![th] = TRUE]
    /\ w_paused' = [w_paused EXCEPT ![th] = FALSE]
    /\ stop_in_delay' = [stop_in_delay EXCEPT ![th] = FALSE]
    /\ pause_hold' = [pause_hold EXCEPT ![th] = FALSE]
    /\ w_failed' = [w_failed EXCEPT ![th] = FALSE]
    /\ UNCHANGED <<cur, left, evq, terminal>>

Goto(th, pc) ==
    /\ wpc' = [wpc EXCEPT ![th] = pc]
    /\ UNCHANGED <<wtask, cur, left, evq, terminal, w_failed, flagVars,
                   stop_in_delay, pause_hold>>

\* while self._running: / while self._paused and self._running: time.sleep(0.5) /
\* if not self._running: break
run_While(th) ==
    /\ wpc[th] = "loop"
    /\ ~(w_running[th] /\ w_paused[th])
    /\ IF w_running[th] THEN Goto(th, "fetch") ELSE ThreadExit(th)
    /\ UNCHANGED <<mgrVars, histVars, orchVars, apiVars, indexVars, lockVars, runVars, cacheVars, tableVars, retryVars, ownerVars>>

\* task = self._task; self._task = None (under the mutex); then _process_task
\* draws the delay, or the thread sleeps 0.1 s and loops
run_GetTask(th) ==
    /\ wpc[th] = "fetch"
    /\ IF wtask[th] # NoEntry
       THEN \E delay \in 0..MaxDelay :
              /\ cur' = [cur EXCEPT ![th] = wtask[th]]
              /\ wtask' = [wtask EXCEPT ![th] = NoEntry]
              /\ left' = [left EXCEPT ![th] = delay * SlicesPerSecond]
              /\ wpc' = [wpc EXCEPT ![th] = "delay_chk"]
              /\ UNCHANGED <<evq, terminal, w_failed, flagVars, stop_in_delay, pause_hold>>
       ELSE Goto(th, "loop")
    /\ UNCHANGED <<mgrVars, histVars, orchVars, apiVars, indexVars, lockVars, runVars, cacheVars, tableVars, retryVars, ownerVars>>

\* for _ in range(delay * 2): if not self._running: return
\* after the loop: status_changed.emit(task_id, "uploading") and the network call begins
\* (for a task that is not in the Orchestrator's list the signal changes no state
\* anywhere and is not queued)
process_task_DelayCheck(th) ==
    /\ wpc[th] = "delay_chk"
    /\ IF left[th] = 0
       THEN /\ evq' = IF cur[th].t = 0 THEN evq
                      ELSE Append(evq, [k |-> "status", e |-> cur[th]])
            /\ wpc' = [wpc EXCEPT ![th] = "call"]
            /\ UNCHANGED <<wtask, cur, left, terminal, w_failed, flagVars,
                           stop_in_delay, pause_hold>>
       ELSE IF ~w_running[th]
       THEN /\ cur' = [cur EXCEPT ![th] = NoEntry]
            /\ left' = [left EXCEPT ![th] = 0]
            /\ wpc' = [wpc EXCEPT ![th] = "loop"]
            /\ UNCHANGED <<wtask, evq, terminal, w_failed, flagVars, stop_in_delay, pause_hold>>
       ELSE Goto(th, "delay_pause")
    /\ UNCHANGED <<mgrVars, histVars, orchVars, apiVars, indexVars, lockVars, runVars, cacheVars, tableVars, retryVars, ownerVars>>

\* while self._paused and self._running: time.sleep(0.5)   (inside the delay)
process_task_DelayPause(th) ==
    /\ wpc[th] = "delay_pause"
    /\ ~(w_paused[th] /\ w_running[th])
    /\ Goto(th, "delay_sleep")
    /\ UNCHANGED <<mgrVars, histVars, orchVars, apiVars, indexVars, lockVars, runVars, cacheVars, tableVars, retryVars, ownerVars>>

\* time.sleep(0.5): one slice of the delay
process_task_DelaySleep(th) ==
    /\ wpc[th] = "delay_sleep"
    /\ left' = [left EXCEPT ![th] = left[th] - 1]
    /\ wpc' = [wpc EXCEPT ![th] = "delay_chk"]
    /\ UNCHANGED <<wtask, cur, evq, terminal, w_failed, flagVars, stop_in_delay, pause_hold>>
    /\ UNCHANGED <<mgrVars, histVars, orchVars, apiVars, indexVars, lockVars, runVars, cacheVars, tableVars, retryVars, ownerVars>>

\* the worker's task object: its key (0 for a task the Orchestrator did not build) and
\* its action
NoInfo == [key |-> 0, action |-> "upload"]
InfoOf(t) == IF t = 0 THEN NoInfo ELSE task_info[t]

\* _upload_video: DuplicateChecker.register_uploaded_video after a successful upload
IndexAfterCall(index, t, k) ==
    IF k = "completed" /\ InfoOf(t).action = "upload" /\ InfoOf(t).key # 0
    THEN index \cup {InfoOf(t).key}
    ELSE index

\* where run() continues after _process_task ended with the event k: the except clause
\* of _process_task swallows every exception, so the while loop goes on
PcAfterCallUncaught(k) == IF k = "failed" THEN "free" ELSE "loop"
PcAfterCall(k) == "loop"

\* _upload_video / _update_video return or raise: exactly one of
\* task_completed.emit, task_failed.emit
process_task_Call(th) ==
    /\ wpc[th] = "call"
    /\ \E k \in {"completed", "failed"} :
          /\ evq' = Append(evq, [k |-> k, e |-> cur[th]])
          /\ dup_index' = IndexAfterCall(dup_index, cur[th].t, k)
          /\ w_failed' = [w_failed EXCEPT ![th] = @ \/ k = "failed"]
          /\ wpc' = [wpc EXCEPT ![th] = PcAfterCall(k)]
    /\ terminal' = terminal \cup {cur[th].e}
    /\ cur' = [cur EXCEPT ![th] = NoEntry]
    /\ UNCHANGED <<wtask, left, flagVars, stop_in_delay, pause_hold, task_info>>
    /\ UNCHANGED <<mgrVars, histVars, orchVars, apiVars, lockVars, runVars, cacheVars, tableVars, retryVars, ownerVars>>

\* ----------------------------------------------------------- WorkerManager
\* entries of every thread: fetched and in its delay or call, or waiting in its slot
LiveEntries == {cur[th].e : th \in {x \in Threads : cur[x] # NoEntry}}
                  \cup {wtask[th].e : th \in {x \in Threads : wtask[x] # NoEntry}}

\* add_tasks(tasks): one add_task per task id of ids, in order
RECURSIVE EntriesFor(_, _)
EntriesFor(ids, n) ==
    IF ids = <<>> THEN <<>>
    ELSE <<[e |-> n, t |-> Head(ids)]>> \o EntriesFor(Tail(ids), n + 1)

\* start_workers(count) on the queue q (count = 0: no argument)
CountAfterStart(count) == IF count # 0 THEN ClampWorkerCount(count) ELSE worker_count

ThreadsAvailable(count) ==
    mgr_running \/ Cardinality(FreeThreads) >= CountAfterStart(count)

start_workers(q, count) ==
    IF mgr_running
    THEN /\ task_queue' = q
         /\ UNCHANGED <<mgr_running, workers, worker_count, wpc, wtask, w_running, w_paused>>
    ELSE LET wc == CountAfterStart(count)
             ws == workers \o FirstFree(wc)
             d == distribute_tasks(TRUE, ws, q, wtask)
         IN /\ mgr_running' = TRUE
            /\ worker_count' = wc
            /\ workers' = ws
            /\ wpc' = [th \in Threads |-> IF th \in Range(FirstFree(wc)) THEN "loop" ELSE wpc[th]]
            /\ w_running' = [th \in Threads |->
                                IF th \in Range(FirstFree(wc)) THEN TRUE ELSE w_running[th]]
            /\ w_paused' = [th \in Threads |->
                                IF th \in Range(FirstFree(wc)) THEN FALSE ELSE w_paused[th]]
            /\ task_queue' = d.q
            /\ wtask' = d.s

\* stop_all(): worker.stop() for each, wait up to 5 s each, self._workers.clear()
stop_all ==
    /\ mgr_running' = FALSE
    /\ w_running' = [th \in Threads |-> IF th \in Range(workers) THEN FALSE ELSE w_running[th]]
    /\ stop_in_delay' = [th \in Threads |->
                            IF th \in Range(workers) /\ InDelay(th) THEN TRUE
                            ELSE stop_in_delay[th]]
    /\ workers' = <<>>
    /\ stale' = IF mgr_running
                THEN stale \cup {task_queue[i].e : i \in 1..Len(task_queue)}
                ELSE stale

\* pause_all(): worker.pause() for each
pause_all ==
    /\ w_paused' = [th \in Threads |-> IF th \in Range(workers) THEN TRUE ELSE w_paused[th]]
    /\ pause_hold' = [th \in Threads |->
                         IF th \in Range(workers) /\ (Idle(th) \/ InDelay(th)) THEN TRUE
                         ELSE pause_hold[th]]
    /\ pauses' = pauses + 1

\* resume_all(): worker.resume() for each, then _distribute_tasks()
resume_all ==
    LET d == distribute_tasks(mgr_running, workers, task_queue, wtask)
    IN /\ w_paused' = [th \in Threads |->
                          IF th \in Range(workers) THEN FALSE ELSE w_paused[th]]
       /\ pause_hold' = [th \in Threads |->
                            IF th \in Range(workers) THEN FALSE ELSE pause_hold[th]]
       /\ task_queue' = d.q
       /\ wtask' = d.s

\* the check after a completion or failure:
\* if self.remaining_count <= 0 and self._task_queue.empty()
AllDoneAnyCount(total, done, bad, q) == q = <<>>
AllDone(total, done, bad, q) == remaining_count(total, done, bad) <= 0 /\ q = <<>>

\* _on_task_completed / _on_task_failed for the event ev, with the Orchestrator's
\* slots (_on_task_completed / _on_task_failed, _update_progress, _on_all_completed)
\* run by direct call inside it
OnTaskEvent(ev) ==
    LET done == IF ev.k = "completed" THEN completed_count + 1 ELSE completed_count
        bad == IF ev.k = "failed" THEN failed_count + 1 ELSE failed_count
        tasks1 == TasksWithStatus(o_tasks, ev.e.t, ev.k)
        rows1 == RowsAfterSave(rows, tasks1, ev.e.t)
        sess1 == SessionsAfterStats(sessions, session_id, tasks1)
        d == distribute_tasks(mgr_running, workers, task_queue, wtask)
    IN /\ completed_count' = done
       /\ failed_count' = bad
       /\ o_tasks' = tasks1
       /\ rows' = rows1
       /\ IF AllDone(total_tasks, done, bad, task_queue)
          THEN /\ all_emits' = all_emits + 1
               /\ emit_ok' = (emit_ok /\ done + bad = total_tasks /\ LiveEntries = {})
               /\ o_running' = FALSE
               /\ sessions' = SessionsWithStatus(sess1, session_id, "completed")
               /\ completed_emits' = completed_emits + 1
               /\ start_pending' = FALSE
               /\ o_last' = "completed"
               /\ completion_ok' =
                     (/\ completion_ok
                      /\ session_id # 0
                      /\ sessions'[session_id].status = "completed"
                      /\ \A i \in 1..Len(tasks1) : tasks1[i].status \in {"completed", "failed"})
               /\ UNCHANGED <<task_queue, wtask>>
          ELSE /\ task_queue' = d.q
               /\ wtask' = d.s
               /\ sessions' = sess1
               /\ UNCHANGED <<all_emits, emit_ok, o_running, completed_emits,
                              start_pending, completion_ok, o_last>>
       /\ UNCHANGED <<total_tasks, mgr_running, workers, worker_count>>
       /\ UNCHANGED <<o_paused, session_id, next_task>>

\* _on_status_changed of the manager and of the Orchestrator
OnStatusEvent(ev) ==
    LET tasks1 == TasksWithStatus(o_tasks, ev.e.t, "uploading")
    IN /\ o_tasks' = tasks1
       /\ rows' = RowsAfterSave(rows, tasks1, ev.e.t)
       /\ UNCHANGED <<mgrVars, wtask, all_emits, emit_ok>>
       /\ UNCHANGED <<o_running, o_paused, session_id, next_task, sessions,
                      completed_emits, start_pending, completion_ok, o_last>>

\* the GUI thread's event loop delivers the oldest queued worker signal
Dispatch ==
    /\ UNCHANGED <<apiVars, indexVars, lockVars, runVars, cacheVars, tableVars, retryVars>>
    /\ evq # <<>>
    /\ evq' = Tail(evq)
    /\ row_session' = OwnerAfterSave(row_session, o_tasks, Head(evq).e.t, session_id)
    /\ IF Head(evq).k = "status" THEN OnStatusEvent(Head(evq)) ELSE OnTaskEvent(Head(evq))
    /\ UNCHANGED <<wpc, cur, left, flagVars, next_entry, terminal, w_failed,
                   stop_in_delay, pause_hold, pauses, stale>>

\* -------------------------------------------- WorkerManager called directly
workerUnch == UNCHANGED <<wpc, wtask, cur, left, flagVars, evq, terminal, w_failed,
                          stop_in_delay, pause_hold>>

\* add_task(task) for a task that is not in the Orchestrator's list (task id 0)
AddTask ==
    /\ UNCHANGED <<apiVars, indexVars, lockVars, runVars, cacheVars, tableVars, retryVars, ownerVars>>
    /\ next_entry <= MaxEntries
    /\ task_queue' = Append(task_queue, [e |-> next_entry, t |-> 0])
    /\ total_tasks' = total_tasks + 1
    /\ next_entry' = next_entry + 1
    /\ UNCHANGED <<completed_count, failed_count, mgr_running, workers, worker_count>>
    /\ UNCHANGED <<all_emits, emit_ok, pauses, stale, orchVars>>
    /\ workerUnch

\* clear_queue()
ClearQueue ==
    /\ UNCHANGED <<apiVars, indexVars, lockVars, runVars, cacheVars, tableVars, retryVars, ownerVars>>
    /\ task_queue' = <<>>
    /\ total_tasks' = 0
    /\ completed_count' = 0
    /\ failed_count' = 0
    /\ UNCHANGED <<mgr_running, workers, worker_count>>
    /\ UNCHANGED <<next_entry, all_emits, emit_ok, pauses, stale, orchVars>>
    /\ workerUnch

\* start_workers(count)
StartWorkers ==
    /\ UNCHANGED <<apiVars, indexVars, lockVars, runVars, cacheVars, tableVars, retryVars, ownerVars>>
    /\ \E count \in 0..MaxCountArg :
          /\ ThreadsAvailable(count)
          /\ start_workers(task_queue, count)
    /\ UNCHANGED <<total_tasks, completed_count, failed_count>>
    /\ UNCHANGED <<cur, left, evq, terminal, w_failed, stop_in_delay, pause_hold>>
    /\ UNCHANGED <<histVars, orchVars>>

\* set_worker_count(count)
SetWorkerCount ==
    /\ UNCHANGED <<apiVars, indexVars, lockVars, runVars, cacheVars, tableVars, retryVars, ownerVars>>
    /\ \E count \in 0..(MaxCountArg + 1) : worker_count' = ClampWorkerCount(count)
    /\ UNCHANGED <<task_queue, total_tasks, completed_count, failed_count, mgr_running, workers>>
    /\ UNCHANGED <<histVars, orchVars>>
    /\ workerUnch

StopAll ==
    /\ UNCHANGED <<apiVars, indexVars, lockVars, runVars, cacheVars, tableVars, retryVars, ownerVars>>
    /\ stop_all
    /\ UNCHANGED <<task_queue, total_tasks, completed_count, failed_count, worker_count>>
    /\ UNCHANGED <<wpc, wtask, cur, left, w_paused, evq, terminal, w_failed, pause_hold>>
    /\ UNCHANGED <<next_entry, all_emits, emit_ok, pauses, orchVars>>

PauseAll ==
    /\ UNCHANGED <<apiVars, indexVars, lockVars, runVars, cacheVars, tableVars, retryVars, ownerVars>>
    /\ pauses < MaxPauses
    /\ pause_all
    /\ UNCHANGED <<mgrVars, wpc, wtask, cur, left, w_running, evq, terminal, w_failed,
                   stop_in_delay>>
    /\ UNCHANGED <<next_entry, all_emits, emit_ok, stale, orchVars>>

ResumeAll ==
    /\ UNCHANGED <<apiVars, indexVars, lockVars, runVars, cacheVars, tableVars, retryVars, ownerVars>>
    /\ resume_all
    /\ UNCHANGED <<total_tasks, completed_count, failed_count, mgr_running, workers,
                   worker_count>>
    /\ UNCHANGED <<wpc, cur, left, w_running, evq, terminal, w_failed, stop_in_delay>>
    /\ UNCHANGED <<histVars, orchVars>>

\* ------------------------------------------------------------ Orchestrator
FreeSessions == {sid \in SessionIds : sessions[sid].status = "none"}
TaskLists == UNION {[1..n -> Keys] : n \in 0..MaxListLen}

\* DuplicateChecker.check_duplicate for each task of the list in turn: a key found in
\* the cache gives update; else the channel search decides, and a video it finds is
\* cached
CheckedActions(ks, index) ==
    {acts \in [1..Len(ks) -> {"upload", "update"}] :
        \A i \in 1..Len(ks) :
            (ks[i] \in index \/ \E j \in 1..(i - 1) : ks[j] = ks[i] /\ acts[j] = "update")
               => acts[i] = "update"}

\* process_folders(paths): create_session, then one task per scanned video with the
\* action the duplicate check gives it, each saved with status pending
ProcessFolders(limit) ==
    /\ UNCHANGED <<apiVars, lockVars, runVars, cacheVars, tableVars, retryVars>>
    /\ FreeSessions # {}
    /\ Cardinality(SessionIds \ FreeSessions) < limit
    /\ \E ks \in TaskLists : \E acts \in CheckedActions(ks, dup_index) :
          LET sid == CHOOSE x \in FreeSessions : \A y \in FreeSessions : x <= y
          IN /\ next_task + Len(ks) - 1 <= MaxTaskIds
             /\ dup_index' = dup_index \cup {ks[i] : i \in {j \in 1..Len(ks) : acts[j] = "update"}}
             /\ task_info' = [t \in 1..MaxTaskIds |->
                    IF t \in next_task..(next_task + Len(ks) - 1)
                    THEN [key |-> ks[t - next_task + 1], action |-> acts[t - next_task + 1]]
                    ELSE task_info[t]]
             /\ session_id' = sid
             /\ sessions' = [sessions EXCEPT ![sid] =
                    [status |-> "pending", uploaded |-> 0, updated |-> 0, failed |-> 0]]
             /\ o_tasks' = [i \in 1..Len(ks) |->
                    [id |-> next_task + i - 1, key |-> ks[i], status |-> "pending",
                     action |-> acts[i]]]
             /\ rows' = [k \in Keys |-> IF k \in Range(ks) THEN "pending" ELSE rows[k]]
             /\ row_session' = [k \in Keys |->
                    IF k \in Range(ks) THEN sid ELSE row_session[k]]
             /\ next_task' = next_task + Len(ks)
    /\ UNCHANGED <<o_running, o_paused, completed_emits, start_pending, completion_ok,
                   o_last>>
    /\ UNCHANGED poolVars

process_folders == ProcessFolders(MaxSessions * (crashes + 1))

\* process_folders as MainWindow._on_start calls it when Start is clicked again
process_folders_again == ProcessFolders(MaxSessions + MaxRestarts)

TaskIdsOf(tasks) == [i \in 1..Len(tasks) |-> tasks[i].id]

\* start()
\* the early returns of start / pause / resume / stop: the call goes on only when
start_valid(running, tasks) == ~running /\ tasks # <<>>
pause_always(running, paused) == TRUE
pause_valid(running, paused) == running /\ ~paused
resume_valid(running, paused) == running /\ paused
stop_valid(running) == running

start ==
    /\ UNCHANGED <<apiVars, indexVars, lockVars, runVars, cacheVars, tableVars, retryVars, ownerVars>>
    /\ start_valid(o_running, o_tasks)
    /\ next_entry + Len(o_tasks) - 1 <= MaxEntries
    /\ ThreadsAvailable(0)
    /\ o_running' = TRUE
    /\ o_paused' = FALSE
    /\ sessions' = SessionsWithStatus(sessions, session_id, "running")
    /\ total_tasks' = total_tasks + Len(o_tasks)
    /\ next_entry' = next_entry + Len(o_tasks)
    /\ start_workers(task_queue \o EntriesFor(TaskIdsOf(o_tasks), next_entry), 0)
    /\ start_pending' = TRUE
    /\ UNCHANGED <<completed_count, failed_count>>
    /\ UNCHANGED <<cur, left, evq, terminal, w_failed, stop_in_delay, pause_hold>>
    /\ UNCHANGED <<all_emits, emit_ok, pauses, stale>>
    /\ UNCHANGED <<o_tasks, session_id, next_task, rows, completed_emits, completion_ok,
                   o_last>>

\* pause()
pause ==
    /\ UNCHANGED <<apiVars, indexVars, lockVars, runVars, cacheVars, tableVars, retryVars, ownerVars>>
    /\ pause_valid(o_running, o_paused)
    /\ pauses < MaxPauses
    /\ o_paused' = TRUE
    /\ pause_all
    /\ sessions' = SessionsWithStatus(sessions, session_id, "paused")
    /\ UNCHANGED <<mgrVars, wpc, wtask, cur, left, w_running, evq, terminal, w_failed,
                   stop_in_delay>>
    /\ UNCHANGED <<next_entry, all_emits, emit_ok, stale>>
    /\ UNCHANGED <<o_tasks, o_running, session_id, next_task, rows, completed_emits,
                   start_pending, completion_ok, o_last>>

\* resume()
resume ==
    /\ UNCHANGED <<apiVars, indexVars, lockVars, runVars, cacheVars, tableVars, retryVars, ownerVars>>
    /\ resume_valid(o_running, o_paused)
    /\ o_paused' = FALSE
    /\ resume_all
    /\ sessions' = SessionsWithStatus(sessions, session_id, "running")
    /\ UNCHANGED <<total_tasks, completed_count, failed_count, mgr_running, workers,
                   worker_count>>
    /\ UNCHANGED <<wpc, cur, left, w_running, evq, terminal, w_failed, stop_in_delay>>
    /\ UNCHANGED histVars
    /\ UNCHANGED <<o_tasks, o_running, session_id, next_task, rows, completed_emits,
                   start_pending, completion_ok, o_last>>

\* stop()
stop ==
    /\ UNCHANGED <<apiVars, indexVars, lockVars, runVars, cacheVars, tableVars, retryVars, ownerVars>>
    /\ stop_valid(o_running)
    /\ o_running' = FALSE
    /\ o_paused' = FALSE
    /\ stop_all
    /\ sessions' = SessionsWithStatus(sessions, session_id, "cancelled")
    /\ start_pending' = FALSE
    /\ o_last' = "stopped"
    /\ UNCHANGED <<task_queue, total_tasks, completed_count, failed_count, worker_count>>
    /\ UNCHANGED <<wpc, wtask, cur, left, w_paused, evq, terminal, w_failed, pause_hold>>
    /\ UNCHANGED <<next_entry, all_emits, emit_ok, pauses>>
    /\ UNCHANGED <<o_tasks, session_id, next_task, rows, completed_emits, completion_ok>>


\* ----------------------------------------------------------- crash recovery
\* Video.status values the table accepts (database.py CheckConstraint)
VideoStatuses == {"pending", "uploading", "completed", "failed", "skipped"}

\* the in_(...) filters of get_pending_tasks and get_resumable_session
PendingVideoStatuses == {"pending", "uploading", "failed"}
ResumableStatuses == {"pending", "running", "paused"}

\* the query with its ordering turned round (started_at ascending)
get_oldest_resumable_session(ss) ==
    LET cand == {sid \in SessionIds : ss[sid].status \in ResumableStatuses}
    IN IF cand = {} THEN 0 ELSE CHOOSE sid \in cand : \A x \in cand : sid <= x

\* StateManager.get_resumable_session(): the most recent session not yet terminal, 0 = None
get_resumable_session(ss) ==
    LET cand == {sid \in SessionIds : ss[sid].status \in ResumableStatuses}
    IN IF cand = {} THEN 0 ELSE CHOOSE sid \in cand : \A x \in cand : x <= sid

\* the query without its status filter
get_all_tasks(rws) == {k \in Keys : rws[k] # "none"}

\* StateManager.get_pending_tasks(session_id): the keys of the Video rows it returns
\* (the session id is not used by the query)
get_pending_tasks(rws) == {k \in Keys : rws[k] \in PendingVideoStatuses}

\* the orders in which the query (no ORDER BY) may return the rows of a key set
RowOrders(ks) == {sq \in TaskLists : Len(sq) = Cardinality(ks) /\ Range(sq) = ks}

\* StateManager.mark_task_status(prod_code, episode, status)
mark_task_status ==
    /\ \E k \in Keys : \E st \in VideoStatuses :
          /\ rows[k] # "none"
          /\ rows' = [rows EXCEPT ![k] = st]
    /\ UNCHANGED <<o_tasks, o_running, o_paused, session_id, next_task, sessions,
                   completed_emits, start_pending, completion_ok, o_last>>
    /\ UNCHANGED <<poolVars, apiVars, indexVars, lockVars, runVars, cacheVars, tableVars, retryVars, ownerVars>>

\* resume_from_crash(): False (nothing changes) without a resumable session or without
\* pending rows; else the session is adopted and the task list rebuilt
resume_from_crash ==
    /\ LET sid == get_resumable_session(sessions)
           pending == get_pending_tasks(rows)
       IN IF sid = 0 \/ pending = {}
          THEN UNCHANGED <<session_id, o_tasks, next_task, task_info>>
          ELSE /\ next_task + Cardinality(pending) - 1 <= MaxTaskIds
               /\ session_id' = sid
               /\ \E ks \in RowOrders(pending) :
                     /\ o_tasks' = [i \in 1..Len(ks) |->
                           [id |-> next_task + i - 1, key |-> ks[i], status |-> "pending",
                            action |-> "upload"]]
                     /\ task_info' = [t \in 1..MaxTaskIds |->
                           IF t \in next_task..(next_task + Len(ks) - 1)
                           THEN [key |-> ks[t - next_task + 1], action |-> "upload"]
                           ELSE task_info[t]]
               /\ next_task' = next_task + Cardinality(pending)
    /\ resumed' = get_resumable_session(sessions)
    /\ UNCHANGED <<o_running, o_paused, sessions, rows, completed_emits, start_pending,
                   completion_ok, o_last, dup_index>>
    /\ UNCHANGED <<poolVars, apiVars, lockVars, crashes, cacheVars, tableVars, retryVars, ownerVars>>

\* ----------------------------------------------------- StateManager, videos
Files == 1..NumFiles
NoTask == [key |-> 0, file |-> 0, status |-> "pending", youtube_video_id |-> 0]

\* the VideoTask values save_task_state is called with: identity, file, status and the
\* remote id (0 = None)
SavedTasks ==
    [key : Keys, file : Files,
     status : {"pending", "uploading", "completed", "failed", "skipped"},
     youtube_video_id : 0..1]

\* query(Video).filter_by(product_id, episode): the rowids that match
VideoRows(vs, k) == {i \in 1..Len(vs) : vs[i].key = k}

\* the insert without the lookup before it
save_task_state_insert(vs, task) == Append(vs, task)

\* save_task_state(task): the row of (product, episode) gets the task's status and
\* remote fields; without such a row one is created from the task
save_task_state(vs, task) ==
    IF VideoRows(vs, task.key) # {}
    THEN LET i == CHOOSE x \in VideoRows(vs, task.key) :
                     \A y \in VideoRows(vs, task.key) : x <= y
         IN [vs EXCEPT ![i] = [@ EXCEPT !.status = task.status,
                                        !.youtube_video_id = task.youtube_video_id]]
    ELSE Append(vs, task)

\* Video.status of the row of a key as the rows map holds it
StatusOfKey(vs, k) ==
    IF VideoRows(vs, k) = {} THEN "none"
    ELSE vs[CHOOSE x \in VideoRows(vs, k) : \A y \in VideoRows(vs, k) : x <= y].status

\* StateManager.save_task_state(task), called with any task
SaveTaskState ==
    /\ \E task \in SavedTasks :
          /\ videos' = save_task_state(videos, task)
          /\ saved' = task
    /\ Len(videos') <= MaxRows
    /\ rows' = [k \in Keys |-> StatusOfKey(videos', k)]
    /\ UNCHANGED <<o_tasks, o_running, o_paused, session_id, next_task, sessions,
                   completed_emits, start_pending, completion_ok, o_last>>
    /\ UNCHANGED <<poolVars, apiVars, indexVars, lockVars, runVars, cacheVars, retryVars, ownerVars>>

\* ------------------------------------------------------------- RetryManager
max_delay == 600             \* retry_manager.py:59
JitterParts == 5             \* retry_manager.py:55, jitter = delay * 0.2
BaseDelays == {0, 1, 7, 30}  \* base_delay values, 30 the default (retry_manager.py:38)

RECURSIVE Pow2(_)
Pow2(n) == IF n = 0 THEN 1 ELSE 2 * Pow2(n - 1)

\* random.uniform(-jitter, jitter) with jitter = delay * 0.2, in fifths of a second
Jitters(delay) == (0 - delay)..delay

\* the delay without the cap
get_retry_delay_uncapped(retry_count, base_delay, m) ==
    (JitterParts * base_delay * Pow2(retry_count) + m) \div JitterParts

\* get_retry_delay(retry_count, base_delay) when the jitter drawn is m fifths of a
\* second: backoff, jitter, cap, int()
get_retry_delay(retry_count, base_delay, m) ==
    LET delay == base_delay * Pow2(retry_count)
        jittered == JitterParts * delay + m
        capped == Min2(jittered, JitterParts * max_delay)
    IN capped \div JitterParts

backoffUnch ==
    UNCHANGED <<rb_pc, rb_max, rb_base, rb_count, outcomes, slept, rb_result>>

retryUnch ==
    UNCHANGED <<poolVars, orchVars, apiVars, indexVars, lockVars, runVars, cacheVars,
                tableVars, ownerVars>>

\* delay_out before the call
NoDelay == 0 - 1

\* get_retry_delay(n, b) for the inputs drawn
GetRetryDelay ==
    /\ delay_out = NoDelay
    /\ delay_out' = get_retry_delay(delay_in.n, delay_in.b, delay_in.m)
    /\ UNCHANGED <<delay_in, message, retryable>>
    /\ backoffUnch
    /\ retryUnch

\* the patterns of is_retryable_error
retryable_patterns ==
    {"timeout", "connection", "network", "rate limit", "too many requests",
     "quota exceeded", "503", "504", "429", "temporarily unavailable"}
non_retryable_patterns ==
    {"invalid", "not found", "unauthorized", "403", "404", "401", "permission denied"}

\* words of error messages written with capitals, and what str.lower() makes of them
Capitalised ==
    {[word |-> "Timeout", lower |-> "timeout"],
     [word |-> "CONNECTION", lower |-> "connection"],
     [word |-> "Quota Exceeded", lower |-> "quota exceeded"],
     [word |-> "Invalid", lower |-> "invalid"],
     [word |-> "Not Found", lower |-> "not found"],
     [word |-> "PERMISSION DENIED", lower |-> "permission denied"],
     [word |-> "Disk Full", lower |-> "disk full"]}

\* the words error messages are made of: every pattern, capitalised forms, other words
Words ==
    retryable_patterns \cup non_retryable_patterns
       \cup {c.word : c \in Capitalised} \cup {"disk full", "500"}

\* str.lower() of one word
lower(w) ==
    IF \E c \in Capitalised : c.word = w
    THEN (CHOOSE c \in Capitalised : c.word = w).lower
    ELSE w

\* pattern in error_str
Contains(error_str, pattern) == \E i \in 1..Len(error_str) : error_str[i] = pattern

\* the rule table with the non-retryable patterns looked at first
is_retryable_error_deny_first(msg) ==
    LET error_str == [i \in 1..Len(msg) |-> lower(msg[i])]
    IN IF \E p \in non_retryable_patterns : Contains(error_str, p) THEN FALSE
       ELSE TRUE

\* is_retryable_error(error)
is_retryable_error(msg) ==
    LET error_str == [i \in 1..Len(msg) |-> lower(msg[i])]
    IN IF \E p \in retryable_patterns : Contains(error_str, p) THEN TRUE
       ELSE IF \E p \in non_retryable_patterns : Contains(error_str, p) THEN FALSE
       ELSE TRUE

\* is_retryable_error(error) for the message drawn
IsRetryableError ==
    /\ retryable = "none"
    /\ retryable' = IF is_retryable_error(message) THEN "true" ELSE "false"
    /\ UNCHANGED <<delay_in, delay_out, message>>
    /\ backoffUnch
    /\ retryUnch

\* retry_with_backoff: the tests of the loop
loop_continues(count, max) == count <= max
retries_never_exhausted(count, max) == FALSE
retries_exhausted(count, max) == count >= max

\* while retry_count <= max_retries:
rb_While ==
    /\ rb_pc = "test"
    /\ IF loop_continues(rb_count, rb_max)
       THEN rb_pc' = "call" /\ UNCHANGED rb_result
       ELSE rb_pc' = "done" /\ rb_result' = "failure"
    /\ UNCHANGED <<rb_max, rb_base, rb_count, outcomes, slept>>
    /\ UNCHANGED <<delay_in, delay_out, message, retryable>>
    /\ retryUnch

\* result = func(): it returns, or it raises and the except branch runs up to the sleep
rb_Call ==
    /\ rb_pc = "call"
    /\ \E returned \in BOOLEAN :
          /\ outcomes' = Append(outcomes, returned)
          /\ IF returned
             THEN rb_pc' = "done" /\ rb_result' = "success"
             ELSE IF retries_exhausted(rb_count, rb_max)
                  THEN rb_pc' = "done" /\ rb_result' = "failure"
                  ELSE rb_pc' = "sleep" /\ UNCHANGED rb_result
    /\ UNCHANGED <<rb_max, rb_base, rb_count, slept>>
    /\ UNCHANGED <<delay_in, delay_out, message, retryable>>
    /\ retryUnch

\* delay = get_retry_delay(retry_count, base_delay); time.sleep(delay); retry_count += 1
rb_Sleep ==
    /\ rb_pc = "sleep"
    /\ \E m \in Jitters(rb_base * Pow2(rb_count)) :
          slept' = Append(slept, [i |-> rb_count,
                                  d |-> get_retry_delay(rb_count, rb_base, m)])
    /\ rb_count' = rb_count + 1
    /\ rb_pc' = "test"
    /\ UNCHANGED <<rb_max, rb_base, outcomes, rb_result>>
    /\ UNCHANGED <<delay_in, delay_out, message, retryable>>
    /\ retryUnch

\* --------------------------------------------------------- DuplicateChecker
NoCheck == [key |-> 0, exists |-> FALSE, vid |-> 0, searched |-> FALSE]

\* rowids of the cache rows filter_by(prod_code, episode) selects, and the video ids cached
CachedRows(cv, k) == {i \in 1..Len(cv) : cv[i].key = k}
CachedVids(cv) == {cv[i].vid : i \in 1..Len(cv)}
CachedKeys(cv) == {cv[i].key : i \in 1..Len(cv)}

\* _cache_video(video, prod_code, episode): a row is added unless the video id has one
cache_video(cv, k, vid) ==
    IF vid \in CachedVids(cv) THEN cv ELSE Append(cv, [key |-> k, vid |-> vid])

\* register_uploaded_video(...): always an insert; youtube_video_id is unique, and the
\* IntegrityError of a second row for one video id is caught and logged
register_uploaded_video(cv, k, vid) ==
    IF vid \in CachedVids(cv) THEN cv ELSE Append(cv, [key |-> k, vid |-> vid])

\* search_video_by_title: the channel videos whose title gives the key; the search
\* answers with any of them, or with nothing (also when the request fails)
SearchResults(ch, k) == {v \in ch : v.key = k}

cacheUnch ==
    UNCHANGED <<poolVars, orchVars, apiVars, lockVars, runVars, task_info, tableVars, retryVars, ownerVars>>

\* check_duplicate(prod_code, episode): the cache first, .first() of the matching rows
\* (no ORDER BY); else the remote search, whose match is cached. A key not found becomes
\* a task with action upload when process_folders is the caller
check_duplicate(k) ==
    /\ IF CachedRows(channel_videos, k) # {}
       THEN /\ \E i \in CachedRows(channel_videos, k) :
                  last_check' = [key |-> k, exists |-> TRUE,
                                 vid |-> channel_videos[i].vid, searched |-> FALSE]
            /\ UNCHANGED <<channel_videos, to_upload>>
       ELSE \/ /\ \E v \in SearchResults(channel, k) :
                     /\ last_check' = [key |-> k, exists |-> TRUE, vid |-> v.vid,
                                       searched |-> TRUE]
                     /\ channel_videos' = cache_video(channel_videos, k, v.vid)
               /\ UNCHANGED to_upload
            \/ /\ last_check' = [key |-> k, exists |-> FALSE, vid |-> 0, searched |-> TRUE]
               /\ \E queued \in BOOLEAN :
                     IF queued
                     THEN /\ to_upload[k] < MaxPending
                          /\ to_upload' = [to_upload EXCEPT ![k] = @ + 1]
                     ELSE UNCHANGED to_upload
               /\ UNCHANGED channel_videos
    /\ dup_index' = CachedKeys(channel_videos')
    /\ UNCHANGED <<channel, registered, next_vid>>
    /\ cacheUnch

\* UploadWorker._upload_video of a task with action upload: the channel gives the new
\* video an id and the video is registered in the cache; nothing is registered when
\* the upload returns None
upload_video(k) ==
    /\ to_upload[k] > 0
    /\ to_upload' = [to_upload EXCEPT ![k] = @ - 1]
    /\ \/ /\ next_vid <= MaxVideos
          /\ next_vid' = next_vid + 1
          /\ channel' = channel \cup {[key |-> k, vid |-> next_vid]}
          /\ channel_videos' = register_uploaded_video(channel_videos, k, next_vid)
          /\ registered' = [registered EXCEPT ![k] = @ \cup {next_vid}]
       \/ UNCHANGED <<next_vid, channel, channel_videos, registered>>
    /\ dup_index' = CachedKeys(channel_videos')
    /\ UNCHANGED last_check
    /\ cacheUnch

\* a video whose title gives the key is put on the channel outside this program
channel_upload(k) ==
    /\ next_vid <= MaxVideos
    /\ next_vid' = next_vid + 1
    /\ channel' = channel \cup {[key |-> k, vid |-> next_vid]}
    /\ UNCHANGED <<channel_videos, to_upload, registered, last_check, dup_index>>
    /\ cacheUnch

\* ------------------------------------------------------------ APIKeyManager
NotExhausted == 0 - 1
CredIndex == 0..(MaxCreds - 1)

\* _cleanup_exhausted: the most recent reset boundary, and the purge of older records
LastReset(t) ==
    LET today_reset == (t \div HoursPerDay) * HoursPerDay + quota_reset_hour
    IN IF t < today_reset THEN today_reset - HoursPerDay ELSE today_reset

cleanup_exhausted(exh, t) ==
    [i \in CredIndex |->
        IF exh[i] # NotExhausted /\ exh[i] < LastReset(t) THEN NotExhausted ELSE exh[i]]

\* _cleanup_exhausted: the log line reads self._keys[index] for every record it is about
\* to purge, and raises IndexError, before anything is deleted, when there is no such set
CleanupRaises(exh, n, t) ==
    \E i \in CredIndex : exh[i] # NotExhausted /\ exh[i] < LastReset(t) /\ i >= n

\* _switch_to_next_available, after the cleanup: the index it moves to, or NotExhausted
\* (no index) when every set is exhausted
NextAvailable(index, exh, n) ==
    LET cand == {i \in 0..(n - 1) : exh[(index + 1 + i) % n] = NotExhausted}
    IN IF n = 0 \/ cand = {} THEN NotExhausted
       ELSE (index + 1 + (CHOOSE i \in cand : \A j \in cand : i <= j)) % n

\* current_key_name: self._keys[self._current_index] raises IndexError when the list is
\* non-empty and shorter than the index
KeyNameRaises(index, n) == n > 0 /\ index >= n

\* mark_quota_exceeded(): the value returned, and _current_index and _exhausted_keys
\* as it leaves them; it raises, after the mark, where the log line reads
\* current_key_name
mark_quota_exceeded(index, exh, n, t) ==
    LET marked == [exh EXCEPT ![index] = t]
        cleaned == cleanup_exhausted(marked, t)
        nxt == NextAvailable(index, cleaned, n)
    IN IF KeyNameRaises(index, n) \/ CleanupRaises(marked, n, t)
       THEN [raised |-> TRUE, ok |-> FALSE, index |-> index, exh |-> marked]
       ELSE [raised |-> FALSE,
             ok |-> nxt # NotExhausted,
             index |-> IF nxt # NotExhausted THEN nxt ELSE index,
             exh |-> cleaned]

ResultOf(r) == IF r.raised THEN "raised" ELSE IF r.ok THEN "true" ELSE "false"

\* reload_keys(): the exhausted records kept when the list has n entries
reload_exhausted_clear(exh, n) == [i \in CredIndex |-> NotExhausted]
reload_exhausted(exh, n) ==
    [i \in CredIndex |-> IF i < n THEN exh[i] ELSE NotExhausted]

\* -------------------------------------------------------- YouTubeAPIService
\* with self._api_lock: a threading.Lock is free for th only when nobody holds it
CanAcquireReentrant(holder, th) == holder = 0 \/ holder = th
CanAcquireUnlocked(holder, th) == TRUE
CanAcquire(holder, th) == holder = 0

apiUnch == UNCHANGED <<poolVars, orchVars, indexVars, lockVars, runVars, cacheVars, tableVars, retryVars, ownerVars>>
keyUnch == UNCHANGED <<n_keys, current_index, exhausted_keys, now, mark_result,
                       status_report>>

\* a worker thread enters upload_video(...) or update_video(...)
ApiCall(th) ==
    /\ apc[th] = "out"
    /\ \E op \in {"upload", "update"} : a_op' = [a_op EXCEPT ![th] = op]
    /\ apc' = [apc EXCEPT ![th] = "ensure"]
    /\ attempts' = [attempts EXCEPT ![th] = 0]
    /\ quota_hits' = [quota_hits EXCEPT ![th] = 0]
    /\ UNCHANGED <<api_lock, a_depth, credentials_valid, youtube_built, a_ctx>>
    /\ keyUnch /\ apiUnch

\* _ensure_authenticated(): if not self.is_authenticated: authenticate()
ensure_authenticated(th) ==
    /\ apc[th] = "ensure"
    /\ IF credentials_valid
       THEN apc' = [apc EXCEPT ![th] = "lock_wait"] /\ UNCHANGED a_ctx
       ELSE /\ apc' = [apc EXCEPT ![th] = "auth_wait"]
            /\ a_ctx' = [a_ctx EXCEPT ![th] = "ensure"]
    /\ UNCHANGED <<api_lock, a_depth, credentials_valid, youtube_built, a_op, attempts,
                   quota_hits>>
    /\ keyUnch /\ apiUnch

\* authenticate(): with self._api_lock:   (entry)
authenticate_Lock(th) ==
    /\ apc[th] = "auth_wait"
    /\ CanAcquire(api_lock, th)
    /\ api_lock' = th
    /\ a_depth' = [a_depth EXCEPT ![th] = a_depth[th] + 1]
    /\ apc' = [apc EXCEPT ![th] = "auth"]
    /\ UNCHANGED <<credentials_valid, youtube_built, a_op, a_ctx, attempts, quota_hits>>
    /\ keyUnch /\ apiUnch

\* what the caller of authenticate() does with its result:
\* _ensure_authenticated raises RuntimeError on False; switch_to_next_key returns it
\* and on True upload_video / update_video calls itself again
AfterAuthenticate(th, ok) ==
    IF a_ctx[th] = "ensure"
    THEN IF ok THEN "lock_wait" ELSE "out"
    ELSE IF ok THEN "ensure" ELSE "out"

\* authenticate(): the body under the lock, and the release at its end
authenticate_Body(th) ==
    /\ apc[th] = "auth"
    /\ \E ok \in (IF n_keys = 0 \/ KeyNameRaises(current_index, n_keys)
                  THEN {FALSE} ELSE {TRUE, FALSE}) :
          /\ credentials_valid' = IF ok THEN TRUE ELSE credentials_valid
          /\ youtube_built' = IF ok THEN TRUE ELSE youtube_built
          /\ apc' = [apc EXCEPT ![th] = AfterAuthenticate(th, ok)]
          /\ LET d == IF AfterAuthenticate(th, ok) = "out" THEN 0 ELSE a_depth[th] - 1
             IN /\ a_depth' = [a_depth EXCEPT ![th] = d]
                /\ api_lock' = IF d = 0 THEN 0 ELSE api_lock
    /\ UNCHANGED <<a_op, a_ctx, attempts, quota_hits>>
    /\ keyUnch /\ apiUnch

\* upload_video / update_video: with self._api_lock:   (entry)
operation_Lock(th) ==
    /\ apc[th] = "lock_wait"
    /\ CanAcquire(api_lock, th)
    /\ api_lock' = th
    /\ a_depth' = [a_depth EXCEPT ![th] = a_depth[th] + 1]
    /\ apc' = [apc EXCEPT ![th] = "attempt"]
    /\ UNCHANGED <<credentials_valid, youtube_built, a_op, a_ctx, attempts, quota_hits>>
    /\ keyUnch /\ apiUnch

\* the try block: the remote operation (videos().insert / list + update) and its
\* outcome; everything but a quota-exceeded HttpError returns and leaves every with-block
operation_Attempt(th) ==
    /\ apc[th] = "attempt"
    /\ IF ~youtube_built
       THEN \* self._youtube is None: AttributeError, caught by except Exception
            /\ apc' = [apc EXCEPT ![th] = "out"]
            /\ api_lock' = 0
            /\ a_depth' = [a_depth EXCEPT ![th] = 0]
            /\ UNCHANGED <<attempts, quota_hits>>
       ELSE \E res \in {"ok", "quota", "http_error", "exception"} :
              /\ attempts' = [attempts EXCEPT ![th] = attempts[th] + 1]
              /\ IF res = "quota"
                 THEN /\ apc' = [apc EXCEPT ![th] = "quota"]
                      /\ quota_hits' = [quota_hits EXCEPT ![th] = quota_hits[th] + 1]
                      /\ UNCHANGED <<api_lock, a_depth>>
                 ELSE /\ apc' = [apc EXCEPT ![th] = "out"]
                      /\ api_lock' = 0
                      /\ a_depth' = [a_depth EXCEPT ![th] = 0]
                      /\ UNCHANGED quota_hits
    /\ UNCHANGED <<credentials_valid, youtube_built, a_op, a_ctx>>
    /\ keyUnch /\ apiUnch

\* except HttpError: _handle_quota_error -> switch_to_next_key ->
\* api_key_manager.mark_quota_exceeded(); on True the credentials and the client are
\* cleared and authenticate() is called, on False the call returns None / False, and
\* an exception raised in the handler leaves the call
handle_quota_error(th) ==
    /\ apc[th] = "quota"
    /\ LET r == mark_quota_exceeded(current_index, exhausted_keys, n_keys, now)
       IN /\ current_index' = r.index
          /\ exhausted_keys' = r.exh
          /\ mark_result' = ResultOf(r)
          /\ IF r.ok
             THEN /\ credentials_valid' = FALSE
                  /\ youtube_built' = FALSE
                  /\ apc' = [apc EXCEPT ![th] = "auth_wait"]
                  /\ a_ctx' = [a_ctx EXCEPT ![th] = "switch"]
                  /\ UNCHANGED <<api_lock, a_depth>>
             ELSE /\ apc' = [apc EXCEPT ![th] = "out"]
                  /\ api_lock' = 0
                  /\ a_depth' = [a_depth EXCEPT ![th] = 0]
                  /\ UNCHANGED <<credentials_valid, youtube_built, a_ctx>>
    /\ UNCHANGED <<n_keys, now, status_report, a_op, attempts, quota_hits>>
    /\ apiUnch

\* reload_keys(): the credential files are read again from disk
reload_keys ==
    /\ \E n \in 0..MaxCreds :
          /\ n_keys' = n
          /\ exhausted_keys' = reload_exhausted(exhausted_keys, n)
    /\ UNCHANGED <<current_index, now, mark_result, status_report, api_lock, a_depth,
                   credentials_valid,
                   youtube_built, apc, a_op, a_ctx, attempts, quota_hits>>
    /\ apiUnch

\* the cached token expires: self._credentials.valid turns False
credentials_expire ==
    /\ credentials_valid
    /\ credentials_valid' = FALSE
    /\ UNCHANGED <<api_lock, a_depth, youtube_built, apc, a_op, a_ctx, attempts, quota_hits>>
    /\ keyUnch /\ apiUnch

\* ------------------------------------------- APIKeyManager called directly
svcUnch == UNCHANGED <<api_lock, a_depth, credentials_valid, youtube_built, apc, a_op,
                       a_ctx, attempts, quota_hits>>

\* mark_quota_exceeded()
MarkQuotaExceeded ==
    /\ LET r == mark_quota_exceeded(current_index, exhausted_keys, n_keys, now)
       IN /\ current_index' = r.index
          /\ exhausted_keys' = r.exh
          /\ mark_result' = ResultOf(r)
    /\ UNCHANGED <<n_keys, now, status_report>>
    /\ svcUnch /\ apiUnch

\* reset_all()
reset_all ==
    /\ exhausted_keys' = [i \in CredIndex |-> NotExhausted]
    /\ current_index' = 0
    /\ UNCHANGED <<n_keys, now, mark_result, status_report>>
    /\ svcUnch /\ apiUnch

\* available_keys / get_status(): _cleanup_exhausted() runs before the count is taken
get_status ==
    /\ IF CleanupRaises(exhausted_keys, n_keys, now)
       THEN /\ status_report' = [raised |-> TRUE, exhausted |-> {}]
            /\ UNCHANGED exhausted_keys
       ELSE /\ exhausted_keys' = cleanup_exhausted(exhausted_keys, now)
            /\ status_report' =
                  [raised |-> FALSE,
                   exhausted |-> {i \in 0..(n_keys - 1) : exhausted_keys'[i] # NotExhausted}]
    /\ UNCHANGED <<n_keys, current_index, now, mark_result>>
    /\ svcUnch /\ apiUnch

\* datetime.now() moves on
Tick ==
    /\ now + TickHours <= MaxClock
    /\ now' = now + TickHours
    /\ UNCHANGED <<n_keys, current_index, exhausted_keys, mark_result, status_report>>
    /\ svcUnch /\ apiUnch

\* ------------------------------ APIKeyManager called from several threads
\* (worker threads through switch_to_next_key, the GUI thread through get_status)
keyDataUnch == UNCHANGED <<n_keys, current_index, exhausted_keys, now, mark_result,
                           status_report>>
lockUnch == UNCHANGED <<poolVars, orchVars, indexVars, runVars, cacheVars, tableVars, retryVars, ownerVars>> /\ svcUnch

\* another thread is changing the exhaustion map or the key list
Overlaps(th) == \E other \in Threads \ {th} : kpc[other] # "out"

\* mark_quota_exceeded() and reset_all(): with self._lock:
locked_Enter(th) ==
    /\ kpc[th] = "out"
    /\ key_lock = 0
    /\ key_lock' = th
    /\ \E m \in {"mark", "reset"} : kpc' = [kpc EXCEPT ![th] = m]
    /\ keyDataUnch /\ lockUnch

\* the body of mark_quota_exceeded(), and the lock released
mark_Exit(th) ==
    /\ kpc[th] = "mark"
    /\ LET r == mark_quota_exceeded(current_index, exhausted_keys, n_keys, now)
       IN /\ current_index' = r.index
          /\ exhausted_keys' = r.exh
          /\ mark_result' = ResultOf(r)
    /\ key_lock' = 0
    /\ kpc' = [kpc EXCEPT ![th] = "out"]
    /\ UNCHANGED <<n_keys, now, status_report>>
    /\ lockUnch

\* the body of reset_all(), and the lock released
reset_Exit(th) ==
    /\ kpc[th] = "reset"
    /\ exhausted_keys' = [i \in CredIndex |-> NotExhausted]
    /\ current_index' = 0
    /\ key_lock' = 0
    /\ kpc' = [kpc EXCEPT ![th] = "out"]
    /\ UNCHANGED <<n_keys, now, mark_result, status_report>>
    /\ lockUnch

\* get_status() / available_keys and reload_keys(): no with self._lock
unlocked_Enter(th) ==
    /\ kpc[th] = "out"
    /\ \E m \in {"status", "reload"} : kpc' = [kpc EXCEPT ![th] = m]
    /\ UNCHANGED key_lock
    /\ keyDataUnch /\ lockUnch

\* the body of get_status(); when another thread changes the dict while
\* _cleanup_exhausted iterates over it the iteration may raise RuntimeError
status_Exit(th) ==
    /\ kpc[th] = "status"
    /\ \E raced \in (IF Overlaps(th) THEN BOOLEAN ELSE {FALSE}) :
          IF raced \/ CleanupRaises(exhausted_keys, n_keys, now)
          THEN /\ status_report' = [raised |-> TRUE, exhausted |-> {}]
               /\ UNCHANGED exhausted_keys
          ELSE /\ exhausted_keys' = cleanup_exhausted(exhausted_keys, now)
               /\ status_report' =
                     [raised |-> FALSE,
                      exhausted |-> {i \in 0..(n_keys - 1) : exhausted_keys'[i] # NotExhausted}]
    /\ kpc' = [kpc EXCEPT ![th] = "out"]
    /\ UNCHANGED <<n_keys, current_index, now, mark_result, key_lock>>
    /\ lockUnch

\* the body of reload_keys()
reload_Exit(th) ==
    /\ kpc[th] = "reload"
    /\ \E n \in 0..MaxCreds :
          /\ n_keys' = n
          /\ exhausted_keys' = reload_exhausted(exhausted_keys, n)
    /\ kpc' = [kpc EXCEPT ![th] = "out"]
    /\ UNCHANGED <<current_index, now, mark_result, status_report, key_lock>>
    /\ lockUnch

KeyStepOf(th) ==
    \/ locked_Enter(th) \/ mark_Exit(th) \/ reset_Exit(th)
    \/ unlocked_Enter(th) \/ status_Exit(th) \/ reload_Exit(th)

ApiStepOf(th) ==
    \/ ensure_authenticated(th)
    \/ authenticate_Lock(th)
    \/ authenticate_Body(th)
    \/ operation_Lock(th)
    \/ operation_Attempt(th)
    \/ handle_quota_error(th)

\* ----------------------------------------------------------- specifications
\* everything but the configured worker count
\* what a newly started process holds in memory
InitMemory ==
    /\ task_queue = <<>>
    /\ total_tasks = 0 /\ completed_count = 0 /\ failed_count = 0
    /\ mgr_running = FALSE
    /\ workers = <<>>
    /\ wpc = [th \in Threads |-> "free"]
    /\ wtask = [th \in Threads |-> NoEntry]
    /\ cur = [th \in Threads |-> NoEntry]
    /\ left = [th \in Threads |-> 0]
    /\ w_running = [th \in Threads |-> TRUE]
    /\ w_paused = [th \in Threads |-> FALSE]
    /\ evq = <<>>
    /\ next_entry = 1
    /\ all_emits = 0
    /\ emit_ok = TRUE
    /\ stale = {}
    /\ terminal = {}
    /\ w_failed = [th \in Threads |-> FALSE]
    /\ stop_in_delay = [th \in Threads |-> FALSE]
    /\ pause_hold = [th \in Threads |-> FALSE]
    /\ pauses = 0
    /\ o_tasks = <<>>
    /\ o_running = FALSE /\ o_paused = FALSE
    /\ session_id = 0
    /\ next_task = 1
    /\ completed_emits = 0
    /\ start_pending = FALSE
    /\ completion_ok = TRUE
    /\ o_last = "none"
    /\ task_info = [t \in 1..MaxTaskIds |-> NoInfo]
    /\ n_keys = 0
    /\ current_index = 0
    /\ exhausted_keys = [i \in CredIndex |-> NotExhausted]
    /\ mark_result = "none"
    /\ status_report = [raised |-> FALSE, exhausted |-> {}]
    /\ api_lock = 0
    /\ a_depth = [th \in Threads |-> 0]
    /\ credentials_valid = FALSE
    /\ youtube_built = FALSE
    /\ apc = [th \in Threads |-> "out"]
    /\ a_op = [th \in Threads |-> "upload"]
    /\ a_ctx = [th \in Threads |-> "ensure"]
    /\ attempts = [th \in Threads |-> 0]
    /\ quota_hits = [th \in Threads |-> 0]
    /\ key_lock = 0
    /\ kpc = [th \in Threads |-> "out"]
    /\ resumed = 0

\* the database file and the wall clock, which outlive the process
InitStore ==
    /\ sessions = [sid \in SessionIds |->
                      [status |-> "none", uploaded |-> 0, updated |-> 0, failed |-> 0]]
    /\ rows = [k \in Keys |-> "none"]
    /\ dup_index = {}
    /\ now = quota_reset_hour
    /\ crashes = 0
    /\ row_session = [k \in Keys |-> 0]
    /\ channel_videos = <<>>
    /\ channel = {}
    /\ to_upload = [k \in Keys |-> 0]
    /\ registered = [k \in Keys |-> {}]
    /\ last_check = NoCheck
    /\ next_vid = 1
    /\ videos = <<>>
    /\ saved = NoTask

\* RetryManager has no state: no call has been made
NoDelayCall ==
    /\ delay_in = [n |-> 0, b |-> 0, m |-> 0]
    /\ delay_out = NoDelay

NoErrorCall ==
    /\ message = <<>>
    /\ retryable = "none"

NoBackoffCall ==
    /\ rb_pc = "idle"
    /\ rb_max = 0 /\ rb_base = 0
    /\ rb_count = 0
    /\ outcomes = <<>>
    /\ slept = <<>>
    /\ rb_result = "none"

InitRetry == NoDelayCall /\ NoErrorCall /\ NoBackoffCall

InitRest == InitMemory /\ InitStore /\ InitRetry

\* settings.json as the program writes it: the setter of config.worker_count clamps
Init ==
    /\ worker_count \in MinWorkers..MaxCountArg
    /\ InitRest

\* settings.json as it may be found: WorkerManager.__init__ takes config.worker_count
\* as it is read from the file
InitConfig ==
    /\ worker_count \in 0..MaxCountArg
    /\ InitRest

WorkerStep ==
    \E th \in Threads :
        \/ run_While(th)
        \/ run_GetTask(th)
        \/ process_task_DelayCheck(th)
        \/ process_task_DelayPause(th)
        \/ process_task_DelaySleep(th)
        \/ process_task_Call(th)

\* the pool driven through WorkerManager's own methods
NextPool ==
    \/ AddTask \/ ClearQueue \/ StartWorkers
    \/ PauseAll \/ ResumeAll \/ StopAll
    \/ WorkerStep \/ Dispatch

SpecPool == Init /\ [][NextPool]_vars

\* the program driven through the Orchestrator
Next ==
    \/ process_folders \/ start \/ pause \/ resume \/ stop
    \/ WorkerStep \/ Dispatch

Spec == Init /\ [][Next]_vars

\* one run of the pool: tasks are added, start_workers is called, nothing is added
\* or stopped afterwards
AddTaskBeforeStart == ~mgr_running /\ AddTask

NextRun ==
    \/ AddTaskBeforeStart \/ StartWorkers \/ PauseAll \/ ResumeAll
    \/ WorkerStep \/ Dispatch

WorkerStepOf(th) ==
    \/ run_While(th)
    \/ run_GetTask(th)
    \/ process_task_DelayCheck(th)
    \/ process_task_DelayPause(th)
    \/ process_task_DelaySleep(th)
    \/ process_task_Call(th)

\* every thread keeps running, every network call returns, the event loop delivers
\* every queued signal, every pause is followed by a resume
Fairness ==
    /\ \A th \in Threads : WF_vars(WorkerStepOf(th))
    /\ WF_vars(Dispatch)

SpecRun == Init /\ [][NextRun]_vars /\ Fairness /\ WF_vars(ResumeAll)

\* runs of the pool that stop_all may end and start_workers may begin again
NextRunStop == NextRun \/ StopAll

SpecRunStop == Init /\ [][NextRunStop]_vars /\ Fairness /\ WF_vars(ResumeAll)

\* the Orchestrator with every worker thread and the event loop scheduled fairly, and
\* every pause followed by a resume
SpecFair == Spec /\ Fairness /\ WF_vars(resume)

\* the pool started from any stored worker count
NextConfig ==
    \/ AddTask \/ SetWorkerCount \/ StartWorkers \/ StopAll
    \/ WorkerStep \/ Dispatch

SpecConfig == InitConfig /\ [][NextConfig]_vars

\* the pool with every worker thread and the event loop scheduled fairly
SpecPoolFair == SpecPool /\ Fairness

\* the Orchestrator and the state store before any worker thread has made a step
NextRecover ==
    \/ process_folders \/ start \/ pause \/ resume \/ stop
    \/ mark_task_status
    \/ resume_from_crash

SpecRecover == Init /\ [][NextRecover]_vars

\* the process dies (power loss, kill, unhandled error of the GUI thread) and the
\* program is started again: every object is constructed anew, the database file and
\* settings.json are as the dead process left them
crash ==
    /\ crashes < MaxCrashes
    /\ crashes' = crashes + 1
    /\ task_queue' = <<>>
    /\ total_tasks' = 0 /\ completed_count' = 0 /\ failed_count' = 0
    /\ mgr_running' = FALSE
    /\ workers' = <<>>
    /\ wpc' = [th \in Threads |-> "free"]
    /\ wtask' = [th \in Threads |-> NoEntry]
    /\ cur' = [th \in Threads |-> NoEntry]
    /\ left' = [th \in Threads |-> 0]
    /\ w_running' = [th \in Threads |-> TRUE]
    /\ w_paused' = [th \in Threads |-> FALSE]
    /\ evq' = <<>>
    /\ next_entry' = 1
    /\ all_emits' = 0
    /\ emit_ok' = TRUE
    /\ stale' = {}
    /\ terminal' = {}
    /\ w_failed' = [th \in Threads |-> FALSE]
    /\ stop_in_delay' = [th \in Threads |-> FALSE]
    /\ pause_hold' = [th \in Threads |-> FALSE]
    /\ pauses' = 0
    /\ o_tasks' = <<>>
    /\ o_running' = FALSE /\ o_paused' = FALSE
    /\ session_id' = 0
    /\ next_task' = 1
    /\ completed_emits' = 0
    /\ start_pending' = FALSE
    /\ completion_ok' = TRUE
    /\ o_last' = "none"
    /\ task_info' = [t \in 1..MaxTaskIds |-> NoInfo]
    /\ n_keys' = 0
    /\ current_index' = 0
    /\ exhausted_keys' = [i \in CredIndex |-> NotExhausted]
    /\ mark_result' = "none"
    /\ status_report' = [raised |-> FALSE, exhausted |-> {}]
    /\ api_lock' = 0
    /\ a_depth' = [th \in Threads |-> 0]
    /\ credentials_valid' = FALSE
    /\ youtube_built' = FALSE
    /\ apc' = [th \in Threads |-> "out"]
    /\ a_op' = [th \in Threads |-> "upload"]
    /\ a_ctx' = [th \in Threads |-> "ensure"]
    /\ attempts' = [th \in Threads |-> 0]
    /\ quota_hits' = [th \in Threads |-> 0]
    /\ key_lock' = 0
    /\ kpc' = [th \in Threads |-> "out"]
    /\ resumed' = 0
    /\ UNCHANGED <<sessions, rows, dup_index, now, worker_count, cacheVars, tableVars, retryVars, ownerVars>>

\* the Orchestrator and the state store over runs of the program that a crash ends and
\* a restart follows, before any worker thread has made a step
NextCrash ==
    \/ process_folders \/ start \/ pause \/ resume \/ stop
    \/ crash
    \/ resume_from_crash

SpecCrash == Init /\ [][NextCrash]_vars

\* the duplicate cache under checks, uploads and videos put on the channel elsewhere
NextCache ==
    \/ \E k \in Keys : check_duplicate(k)
    \/ \E k \in Keys : upload_video(k)
    \/ \E k \in Keys : channel_upload(k)

SpecCache == Init /\ [][NextCache]_vars

\* the videos table under any sequence of save_task_state calls
NextTable == SaveTaskState

SpecTable == Init /\ [][NextTable]_vars

\* the Orchestrator driven by the Start and Stop buttons: every Start scans the
\* folders again
NextRestart ==
    \/ process_folders_again \/ start \/ stop
    \/ WorkerStep \/ Dispatch

\* settings.json holding one worker
InitOneWorker ==
    /\ worker_count = MinWorkers
    /\ InitRest

SpecRestart == InitOneWorker /\ [][NextRestart]_vars

\* get_retry_delay over its inputs
NextDelay == GetRetryDelay

InitDelay ==
    /\ worker_count = MinWorkers
    /\ InitMemory /\ InitStore /\ NoErrorCall /\ NoBackoffCall
    /\ \E n \in 0..MaxRetryCount : \E b \in BaseDelays :
          \E m \in Jitters(b * Pow2(n)) : delay_in = [n |-> n, b |-> b, m |-> m]
    /\ delay_out = NoDelay

SpecDelay == InitDelay /\ [][NextDelay]_vars

\* is_retryable_error over error messages
NextClassify == IsRetryableError

InitClassify ==
    /\ worker_count = MinWorkers
    /\ InitMemory /\ InitStore /\ NoDelayCall /\ NoBackoffCall
    /\ message \in UNION {[1..n -> Words] : n \in 0..MaxWords}
    /\ retryable = "none"

SpecClassify == InitClassify /\ [][NextClassify]_vars

\* one retry_with_backoff call with any max_retries, a func that returns or raises at
\* each call, and sleeps that end
NextBackoff == rb_While \/ rb_Call \/ rb_Sleep

InitBackoff ==
    /\ worker_count = MinWorkers
    /\ InitMemory /\ InitStore /\ NoDelayCall /\ NoErrorCall
    /\ rb_pc = "test"
    /\ rb_max \in (0 - 1)..MaxRetries
    /\ rb_base \in {1, 2}
    /\ rb_count = 0
    /\ outcomes = <<>>
    /\ slept = <<>>
    /\ rb_result = "none"

SpecBackoff == InitBackoff /\ [][NextBackoff]_vars /\ WF_vars(NextBackoff)

\* the worker threads inside the Remote Video Service
NextApi ==
    \/ \E th \in Threads : ApiCall(th)
    \/ \E th \in Threads : ApiStepOf(th)
    \/ credentials_expire
    \/ reload_keys

SpecApi == Init /\ [][NextApi]_vars

\* the credential rotator driven through its own methods
NextKeys ==
    \/ MarkQuotaExceeded \/ reset_all \/ reload_keys \/ get_status \/ Tick

SpecKeys == Init /\ [][NextKeys]_vars

\* the credential rotator called from several threads
NextKeyThreads == Tick \/ \E th \in Threads : KeyStepOf(th)

SpecKeyThreads == Init /\ [][NextKeyThreads]_vars

\* every thread that can take a step inside the service eventually takes one
SpecApiFair == SpecApi /\ \A th \in Threads : WF_vars(ApiStepOf(th))

\* ------------------------------------------------------------------ claims
Submitted == 1..(next_entry - 1)
Held(th) == {wtask[th].e, cur[th].e} \ {0}
Queued == {task_queue[i].e : i \in 1..Len(task_queue)}
PlaceCount(e) ==
    Cardinality({i \in 1..Len(task_queue) : task_queue[i].e = e})
    + Cardinality({th \in Threads : wtask[th].e = e})
    + Cardinality({th \in Threads : cur[th].e = e})
    + (IF e \in terminal THEN 1 ELSE 0)

\* C1: in a run where k >= 1 tasks are added and start_workers is then called,
\* all_tasks_completed is emitted exactly once: never twice, and eventually once.
C1_ExactlyOnce ==
    /\ [](all_emits <= 1)
    /\ ((mgr_running /\ total_tasks >= 1) ~> (all_emits = 1))

C1_Witness ==
    /\ all_emits = 1
    /\ total_tasks = 2
    /\ Len(workers) = 2
    /\ completed_count + failed_count = 2

\* C2: all_tasks_completed is emitted only with the queue empty, completed + failed
\* equal to total, and no submitted task in a slot or being processed.
C2_EmitOnlyWhenAllTerminal == emit_ok

\* C3: every start() that takes effect is eventually followed by the completed event
\* (or by a stop), and every completed event finds the session marked completed and
\* every task of the list completed or failed.
C3_EveryStartCompletes == [](completion_ok) /\ (start_pending ~> ~start_pending)

\* the Orchestrator's state as its flags and its last signal give it
OrchState ==
    IF o_running THEN (IF o_paused THEN "paused" ELSE "running")
    ELSE IF o_last = "none" THEN "idle" ELSE o_last

AllowedTransitions ==
    {<<"idle", "running">>, <<"running", "paused">>, <<"paused", "running">>,
     <<"running", "stopped">>, <<"paused", "stopped">>, <<"running", "completed">>}

\* C11: the Orchestrator's state changes only by idle->running, running->paused,
\* paused->running, running->stopped, paused->stopped and running->completed.
C11_OnlyListedTransitions ==
    [][OrchState' # OrchState => <<OrchState, OrchState'>> \in AllowedTransitions]_vars

\* C12: a session whose persisted status is completed or cancelled keeps that status,
\* and the Orchestrator emits no completed while its session is cancelled.
C12_TerminalSessionIsFinal ==
    [][/\ \A sid \in SessionIds :
             sessions[sid].status \in {"completed", "cancelled"}
                => sessions'[sid].status = sessions[sid].status
       /\ (session_id # 0 /\ sessions[session_id].status = "cancelled")
             => completed_emits' = completed_emits]_vars

\* C13: with a resumable session, resume_from_crash adopts its id and rebuilds one
\* pending task for every Video row that is not completed, none for a completed row.
C13_ResumeRebuildsNonCompleted ==
    [][(resume_from_crash /\ get_resumable_session(sessions) # 0)
          => /\ session_id' = get_resumable_session(sessions)
             /\ \A k \in Keys :
                   Cardinality({i \in 1..Len(o_tasks') : o_tasks'[i].key = k})
                      = IF rows[k] \in VideoStatuses \ {"completed"} THEN 1 ELSE 0
             /\ \A i \in 1..Len(o_tasks') : o_tasks'[i].status = "pending"]_vars

\* C14: two tasks of one run with the same (product code, episode) are never both
\* dispatched with action upload.
C14_NoTwoUploadsOfOneKey ==
    \A i, j \in 1..Len(o_tasks) :
        (i # j /\ o_tasks[i].key = o_tasks[j].key
           /\ o_tasks[i].action = "upload" /\ o_tasks[j].action = "upload")
          => (o_tasks[i].status = "pending" \/ o_tasks[j].status = "pending")

\* C15: an entry that was in the queue when stop_all ended a run is not handed to a worker
\* afterwards, and once workers are started again the total does not count it.
C15_QueuedAtStopDiscarded ==
    /\ \A th \in Threads : Held(th) \cap stale = {}
    /\ (mgr_running /\ stale # {}) => total_tasks <= Cardinality(Submitted \ stale)

\* a worker of the pool that holds no task at all
IdleWorker(th) == wtask[th] = NoEntry /\ cur[th] = NoEntry /\ wpc[th] \in {"loop", "fetch"}

\* C16: no task waits in the slot of a worker that is in the delay or network call of
\* another task while a different worker of the pool is idle.
C16_NotParkedBehindBusyWorker ==
    \A t1, t2 \in Range(workers) :
        (t1 # t2 /\ wtask[t1] # NoEntry /\ cur[t1] # NoEntry) => ~IdleWorker(t2)

\* the pool runs, a task is queued, and a worker that is not paused is idle
QueuedWhileIdle ==
    /\ mgr_running
    /\ task_queue # <<>>
    /\ \E th \in Range(workers) : IdleWorker(th) /\ ~w_paused[th]

\* C17: while the pool runs unpaused, no task stays in the queue for ever while a worker
\* is idle.
C17_QueuedTaskReachesIdleWorker == []<>(~QueuedWhileIdle)

\* C18: tasks leave the queue in submission order: whenever a task is put in a worker's
\* slot, every task that is still queued was submitted after it.
C18_FetchOrderIsSubmissionOrder ==
    [][\A th \in Threads :
          (wtask'[th] # wtask[th] /\ wtask'[th] # NoEntry)
             => \A i \in 1..Len(task_queue') : task_queue'[i].e > wtask'[th].e]_vars

C18_Witness == \E th \in Threads : wtask[th].e = 1 /\ Queued = {2}

\* C19: a worker whose network call ends reports one event for the task and goes back
\* to its loop; a task put in the slot of a worker that has reported a failure is
\* processed to its terminal event unless the worker is stopped.
C19_WorkerSurvivesFailure ==
    /\ [][\A th \in Threads :
             (wpc[th] = "call" /\ wpc'[th] # "call")
                => /\ wpc'[th] = "loop"
                   /\ evq' = Append(evq, [k |-> evq'[Len(evq')].k, e |-> cur[th]])
                   /\ w_failed'[th] = (w_failed[th] \/ evq'[Len(evq')].k = "failed")]_vars
    /\ \A th \in Threads : \A e \in 1..MaxEntries :
          [](w_failed[th] /\ wtask[th].e = e
                => <>(e \in terminal \/ ~w_running[th]))

C19_Witness ==
    \E th \in Threads :
        /\ w_failed[th]
        /\ w_running[th]
        /\ cur[th] # NoEntry
        /\ wpc[th] = "call"

\* C20: a network call that ends emits one terminal event for a task that had none,
\* and no task whose status is 'failed' is put in the queue again by the Orchestrator.
C20_OneTerminalEventNoResubmit ==
    [][/\ \A th \in Threads :
             (wpc[th] = "call" /\ wpc'[th] # "call")
                => /\ cur[th].e \notin terminal
                   /\ Len(evq') = Len(evq) + 1
                   /\ evq'[Len(evq')].k \in {"completed", "failed"}
       /\ \A i \in 1..Len(task_queue') :
             task_queue'[i].e >= next_entry
                => \A j \in 1..Len(o_tasks) :
                      o_tasks[j].id = task_queue'[i].t => o_tasks[j].status # "failed"]_vars

\* C21: start_workers on a pool that is not running leaves exactly worker_count workers,
\* with 1 <= worker_count <= 5; while the pool runs the worker list does not change.
C21_StartCreatesWorkerCount ==
    [][/\ (~mgr_running /\ mgr_running')
             => /\ Len(workers') = worker_count'
                /\ worker_count' \in MinWorkers..MaxWorkers
       /\ (mgr_running /\ mgr_running') => workers' = workers]_vars

\* C22: the effects of start, pause, resume and stop occur only in the states where the
\* call is valid: tasks are enqueued only by a start while not running with a non-empty
\* list, workers are paused and the session marked 'paused' only while running and not
\* paused, workers are resumed only while paused, and the pool is stopped and the
\* session marked 'cancelled' only while running.
SessionStatus == IF session_id = 0 THEN "none" ELSE sessions[session_id].status
C22_InvalidCallIsNoOp ==
    [][/\ (next_entry' # next_entry \/ total_tasks' > total_tasks)
             => (~o_running /\ o_tasks # <<>> /\ o_running')
       /\ ((o_paused' /\ ~o_paused) \/ (\E th \in Threads : w_paused'[th] /\ ~w_paused[th])
              \/ (SessionStatus' = "paused" /\ SessionStatus # "paused"))
             => (o_running /\ ~o_paused /\ o_running' /\ o_paused')
       /\ ((\E th \in Range(workers) : w_paused[th] /\ ~w_paused'[th])
              \/ (SessionStatus = "paused" /\ SessionStatus' = "running"))
             => (o_running /\ o_paused /\ ~o_paused')
       /\ ((workers # <<>> /\ workers' = <<>>)
              \/ (SessionStatus' = "cancelled" /\ SessionStatus # "cancelled"))
             => (o_running /\ ~o_running' /\ ~mgr_running')]_vars

C22_Witness ==
    /\ o_running /\ o_paused
    /\ SessionStatus = "paused"
    /\ \E th \in Range(workers) : w_paused[th]

\* C23: mark_quota_exceeded records the current index as exhausted; when it returns true
\* current has moved to the first non-exhausted
\* index after it in cyclic order; it returns false (the caller gives up) exactly when
\* every set is exhausted, and then current is unchanged.
FirstAfter(index, exh, n) ==
    {i \in 0..(n - 1) :
        /\ exh[i] = NotExhausted
        /\ \A j \in 0..(n - 1) :
              ((j - index - 1) % n) < ((i - index - 1) % n) => exh[j] # NotExhausted}
C23_MarkMovesToNextAvailable ==
    [][MarkQuotaExceeded
          => /\ mark_result' \in {"true", "false"}
             /\ exhausted_keys'[current_index] # NotExhausted
             /\ IF mark_result' = "true"
                THEN current_index' \in FirstAfter(current_index, exhausted_keys', n_keys)
                ELSE /\ current_index' = current_index
                     /\ \A i \in 0..(n_keys - 1) : exhausted_keys'[i] # NotExhausted]_vars

\* C24: whenever at least one credential set is loaded, current_index is the index of
\* one of them.
C24_CurrentIndexInRange == n_keys > 0 => (0 <= current_index /\ current_index < n_keys)

\* C25: every exhaustion check (mark_quota_exceeded, get_status / available_keys) leaves
\* no record older than the most recent reset boundary and keeps every record made at or
\* after it; get_status reports as exhausted exactly the sets with such a record.
Stale(exh, t) == {i \in CredIndex : exh[i] # NotExhausted /\ exh[i] < LastReset(t)}
Fresh(exh, t) == {i \in CredIndex : exh[i] # NotExhausted /\ exh[i] >= LastReset(t)}
C25_StaleExhaustionPurged ==
    [][/\ (MarkQuotaExceeded \/ get_status)
             => /\ Stale(exhausted_keys', now) = {}
                /\ Fresh(exhausted_keys, now) \subseteq Fresh(exhausted_keys', now)
       /\ get_status
             => /\ ~status_report'.raised
                /\ status_report'.exhausted = Fresh(exhausted_keys, now) \cap 0..(n_keys - 1)]_vars

\* C26: reload_keys keeps the exhaustion record, with its timestamp, of every index below
\* the new number of sets and removes the records of the other indices.
C26_ReloadKeepsExistingRecords ==
    [][reload_keys
          => \A i \in CredIndex :
                exhausted_keys'[i] = IF i < n_keys' THEN exhausted_keys[i] ELSE NotExhausted]_vars

C26_Witness ==
    /\ n_keys = 1 /\ current_index = 1
    /\ mark_result = "false"
    /\ exhausted_keys[0] # NotExhausted
    /\ exhausted_keys[1] = NotExhausted

\* C27: a thread that is changing the rotator's exhaustion map, current index or key
\* list holds the rotator's lock, so no two threads are inside such a change at once.
C27_MutationsHoldLock ==
    /\ \A th \in Threads : kpc[th] # "out" => key_lock = th
    /\ \A t1, t2 \in Threads : (t1 # t2 /\ kpc[t1] # "out") => kpc[t2] = "out"

\* C28: at most one thread is inside the body of authenticate(), and no thread is inside
\* a remote operation while another is inside authenticate() or has cleared the
\* credentials and the client in switch_to_next_key and not rebuilt them yet.
InAuthentication(th) == apc[th] = "auth"
ReplacingClient(th) ==
    \/ apc[th] \in {"auth", "quota"}
    \/ (apc[th] = "auth_wait" /\ a_ctx[th] = "switch")
C28_AuthenticationExclusive ==
    \A t1, t2 \in Threads :
        t1 # t2 => /\ ~(InAuthentication(t1) /\ InAuthentication(t2))
                   /\ ReplacingClient(t1) => apc[t2] # "attempt"

C28_Witness ==
    \E t1, t2 \in Threads :
        /\ t1 # t2
        /\ InAuthentication(t1)
        /\ apc[t2] \in {"auth_wait", "lock_wait"}

\* C29: at any time at most one persisted session has status running or paused
ActiveSessions == {sid \in SessionIds : sessions[sid].status \in {"running", "paused"}}
C29_AtMostOneActiveSession == Cardinality(ActiveSessions) <= 1

\* C30: get_resumable_session() returns the most recently started session whose status
\* is pending, running or paused, and returns none exactly when every session is
\* completed or cancelled
Created == {sid \in SessionIds : sessions[sid].status # "none"}
C30_ResumableIsNewestOpen ==
    LET r == get_resumable_session(sessions)
    IN /\ (r = 0) <=> \A sid \in Created : sessions[sid].status \in {"completed", "cancelled"}
       /\ r # 0 =>
             /\ r \in Created
             /\ sessions[r].status \in {"pending", "running", "paused"}
             /\ \A sid \in Created :
                   sessions[sid].status \in {"pending", "running", "paused"} => sid <= r

\* two open sessions are stored and resume_from_crash has adopted the later one
C30_Witness ==
    /\ \A sid \in {1, 2} : sessions[sid].status \in {"pending", "running", "paused"}
    /\ resumed = 2
    /\ session_id = 2

\* C31: resume_from_crash() does not start execution: it leaves is_running and
\* is_paused as they are (false in a newly started program), the persisted sessions and
\* rows, the worker pool and every emitted event unchanged; the session id and the task
\* list change only when a session is open and a row is pending, uploading or failed
C31_ResumeDoesNotStart ==
    [][resume_from_crash =>
          /\ UNCHANGED <<o_running, o_paused, sessions, rows, poolVars>>
          /\ UNCHANGED <<completed_emits, o_last, start_pending>>
          /\ (~o_running /\ ~o_paused) => (~o_running' /\ ~o_paused')
          /\ (\/ \A sid \in SessionIds :
                    sessions[sid].status \notin {"pending", "running", "paused"}
              \/ \A k \in Keys : rows[k] \notin {"pending", "uploading", "failed"})
                => UNCHANGED <<session_id, o_tasks>>]_vars

\* resume_from_crash has adopted a session and rebuilt its tasks, and nothing runs
C31_Witness ==
    /\ resumed # 0
    /\ session_id = resumed
    /\ Len(o_tasks) > 0
    /\ o_tasks[1].id > 1
    /\ ~o_running /\ ~o_paused
    /\ workers = <<>> /\ task_queue = <<>>
    /\ sessions[resumed].status = "pending"

\* C32: after register(key, video id, url) every later check(key) returns exists = true
\* with that video id from the cache, without a remote search; and a check that found
\* the video by remote search caches it, so the next check of the key does not search
C32_RegisteredIsFoundInCache ==
    [][\A k \in Keys : check_duplicate(k) =>
          /\ \A vid \in registered[k] :
                /\ last_check'.exists
                /\ last_check'.vid = vid
                /\ ~last_check'.searched
          /\ (last_check.key = k /\ last_check.exists /\ last_check.searched)
                => (last_check'.exists /\ ~last_check'.searched)]_vars

\* C33: save_task_state never changes the identity (product, episode) nor the file
\* fields of an existing Video row; on an existing row it changes only the status and
\* remote fields, and there is at most one row per (product, episode)
C33_SaveKeepsIdentity ==
    [][SaveTaskState =>
          /\ Len(videos') >= Len(videos)
          /\ \A i \in 1..Len(videos) :
                /\ videos'[i].key = videos[i].key
                /\ videos'[i].file = videos[i].file
                /\ videos[i].key # saved'.key => videos'[i] = videos[i]
          /\ \A i, j \in 1..Len(videos') :
                videos'[i].key = videos'[j].key => i = j]_vars

\* a row was saved again by a task of the same key and another file
C33_Witness ==
    \E i \in 1..Len(videos) :
        /\ videos[i].key = saved.key
        /\ videos[i].file # saved.file
        /\ videos[i].status = saved.status
        /\ saved.status = "completed"

\* C34: after every task completion or failure callback the task's new status is in
\* the list and persisted, completed + failed <= total for the numbers of tasks of the
\* list in those statuses, and the session's persisted uploaded, updated and failed
\* counts are the numbers of completed upload tasks, completed update tasks and failed
\* tasks of the list
C34_CallbackPersistsAndCounts ==
    [][(evq # <<>> /\ Head(evq).k \in {"completed", "failed"} /\ Dispatch) =>
          /\ \E i \in 1..Len(o_tasks') :
                /\ o_tasks'[i].id = Head(evq).e.t
                /\ o_tasks'[i].status = Head(evq).k
                /\ rows'[o_tasks'[i].key] = Head(evq).k
          /\ CountTasks(o_tasks', "completed", {"upload", "update"})
                + CountTasks(o_tasks', "failed", {"upload", "update"}) <= Len(o_tasks')
          /\ session_id # 0 =>
                /\ sessions'[session_id].uploaded = CountTasks(o_tasks', "completed", {"upload"})
                /\ sessions'[session_id].updated = CountTasks(o_tasks', "completed", {"update"})
                /\ sessions'[session_id].failed
                      = CountTasks(o_tasks', "failed", {"upload", "update"})]_vars

\* C35: get_retry_delay(n, b) is an integer d <= 600 with
\* d = trunc(min(b*2^n + j, 600)) for a jitter |j| <= 0.2*b*2^n; for b = 30 it is within
\* [24,36] for n = 0, within [192,288] for n = 3 and exactly 600 for n = 10
C35_RetryDelayBounds ==
    LET n == delay_in.n
        b == delay_in.b
        exact5 == 5 * b * Pow2(n) + delay_in.m
        least5 == IF exact5 < 3000 THEN exact5 ELSE 3000
    IN delay_out # NoDelay =>
       /\ delay_out \in Int
       /\ delay_out <= 600
       /\ delay_in.m <= b * Pow2(n) /\ 0 - delay_in.m <= b * Pow2(n)
       /\ 5 * delay_out <= least5 /\ least5 < 5 * delay_out + 5
       /\ (b = 30 /\ n = 0) => (24 <= delay_out /\ delay_out <= 36)
       /\ (b = 30 /\ n = 3) => (192 <= delay_out /\ delay_out <= 288)
       /\ (b = 30 /\ n = 10) => delay_out = 600

\* the cap has cut a delay that the jitter had lowered
C35_Witness ==
    /\ delay_in.b = 30 /\ delay_in.n = 10 /\ delay_in.m < 0
    /\ delay_out = 600

\* C36: is_retryable_error is true when the message contains, in any letter case, a
\* retryable pattern, even together with a non-retryable one; else false when it
\* contains a non-retryable pattern; else true
HasPattern(msg, patterns) ==
    \E i \in 1..Len(msg) :
        \/ msg[i] \in patterns
        \/ \E c \in Capitalised : c.word = msg[i] /\ c.lower \in patterns
C36_RetryableRuleOrder ==
    retryable # "none" =>
        (retryable = "true") =
            (\/ HasPattern(message, retryable_patterns)
             \/ ~HasPattern(message, non_retryable_patterns))

\* a capitalised retryable pattern next to a non-retryable one was classified retryable
C36_Witness ==
    /\ retryable = "true"
    /\ Len(message) = 2
    /\ message[1] = "Not Found"
    /\ message[2] = "Quota Exceeded"

\* C37: no (product code, episode) goes down the upload path twice: a start() never
\* puts a task whose status is completed in the queue, and resume_from_crash() never
\* rebuilds as an upload a task whose video is already on the channel (its key is in the
\* duplicate cache: uploaded before the crash, or found and given action update)
C37_NoSecondUpload ==
    [][/\ \A i \in 1..Len(task_queue') :
             task_queue'[i].e >= next_entry
                => \A j \in 1..Len(o_tasks) :
                      o_tasks[j].id = task_queue'[i].t => o_tasks[j].status # "completed"
       /\ (resume_from_crash /\ o_tasks' # o_tasks)
             => \A i \in 1..Len(o_tasks') :
                   o_tasks'[i].key \in dup_index => o_tasks'[i].action # "upload"]_vars

\* C38: in every reachable state of the Orchestrator is_paused implies is_running
C38_PausedImpliesRunning == o_paused => o_running

\* C39: the tasks rebuilt by resume_from_crash() all belong to the session it adopts:
\* a Video row saved by a different session is not turned into a task of that session
C39_ResumedTasksOfAdoptedSession ==
    [][(resume_from_crash /\ o_tasks' # o_tasks)
          => \A i \in 1..Len(o_tasks') :
                row_session[o_tasks'[i].key] = session_id']_vars

\* C40: retry_with_backoff calls func at most max_retries + 1 times and always ends; it
\* returns success at the first call that does not raise and calls func no more; it
\* sleeps get_retry_delay(i) only between attempt i and attempt i + 1, never after the
\* last failed attempt; it returns failure when every attempt raised; with
\* max_retries = 0 func is called exactly once
BackoffSafe ==
    /\ Len(outcomes) <= rb_max + 1 \/ (rb_max < 0 /\ outcomes = <<>>)
    /\ \A j \in 1..(Len(outcomes) - 1) : ~outcomes[j]
    /\ \A j \in 1..Len(slept) :
          /\ slept[j].i = j - 1
          /\ j <= Len(outcomes)
          /\ \E m \in Jitters(rb_base * Pow2(j - 1)) :
                slept[j].d = get_retry_delay(j - 1, rb_base, m)
    /\ Len(slept) <= Max2(Len(outcomes) - 1, 0)
                        + (IF rb_pc \in {"test", "call"} THEN 1 ELSE 0)
    /\ rb_pc = "done" =>
          /\ rb_result \in {"success", "failure"}
          /\ Len(slept) = Max2(Len(outcomes) - 1, 0)
          /\ rb_result = "success" <=> (outcomes # <<>> /\ outcomes[Len(outcomes)])
          /\ rb_result = "failure" =>
                (\A j \in 1..Len(outcomes) : ~outcomes[j])
                   /\ Len(outcomes) = Max2(rb_max + 1, 0)
          /\ rb_max = 0 => Len(outcomes) = 1
    /\ rb_pc # "done" => rb_result = "none"
C40_BackoffBoundedAndEnds == []BackoffSafe /\ <>(rb_pc = "done")

\* every attempt raised: rb_max + 1 calls, a sleep between each two, failure
C40_Witness ==
    /\ rb_pc = "done"
    /\ rb_result = "failure"
    /\ rb_max = 2
    /\ Len(outcomes) = 3
    /\ Len(slept) = 2

\* C4: no queue entry is held (slot) or processed by two workers at once, nor held by
\* a worker while still queued or after its terminal event; a worker's slot and the
\* task it processes are different entries.
C4_NoSharedEntry ==
    /\ \A t1, t2 \in Threads : t1 # t2 => Held(t1) \cap Held(t2) = {}
    /\ \A th \in Threads : Held(th) \cap (Queued \cup terminal) = {}
    /\ \A th \in Threads : wtask[th] # NoEntry => wtask[th].e # cur[th].e
    /\ \A i, j \in 1..Len(task_queue) : i # j => task_queue[i].e # task_queue[j].e

C4_Witness ==
    \E t1, t2 \in Threads :
        /\ t1 # t2
        /\ wpc[t1] = "call" /\ wpc[t2] = "call"
        /\ cur[t1] # NoEntry /\ cur[t2] # NoEntry

C6_StopInDelayNeverCalls == \A th \in Threads : stop_in_delay[th] => wpc[th] # "call"

\* C7: a worker that was idle or in its delay when pause_all ran does not begin a
\* network call before resume_all.
C7_PausedNeverCalls == \A th \in Threads : pause_hold[th] => wpc[th] # "call"

\* C8: a call that got quota-exceeded while the rotator had another set re-authenticates,
\* re-issues the operation and returns, leaving the service lock free.
C8_QuotaSwitchReturns ==
    \A th \in Threads :
        [](apc[th] = "auth_wait" /\ a_ctx[th] = "switch"
              => <>(apc[th] = "out" /\ api_lock # th))

C10_CallBlocksOnlyCaller ==
    \A t1, t2 \in Threads :
        (t1 # t2 /\ apc[t1] = "attempt" /\ apc[t2] = "lock_wait") => CanAcquire(api_lock, t2)

====
